---------------------------- MODULE Spec2Model ----------------------------
(***************************************************************************)
(* VMagic (src-tauri): the job commands of commands.rs and the ffmpeg      *)
(* pipelines of ffmpeg.rs.                                                 *)
(*                                                                         *)
(*   Spec      the command layer: concurrent invocations of the four       *)
(*             job-initiating commands and of cancel_conversion sharing    *)
(*             one ConversionState (commands.rs).                          *)
(*   SpecSup   one job's run of convert_video_minterpolate, the single-pass *)
(*             supervised ffmpeg run (ffmpeg.rs:284-563), with              *)
(*             cancel_conversion arriving at any moment.                    *)
(*   SpecRife  one job's run of convert_video_rife, the extract /          *)
(*             interpolate / encode pipeline (ffmpeg.rs:575-899), with      *)
(*             cancel_conversion arriving at any moment.                    *)
(*   SpecCalc  the multiplier arithmetic of convert_video_rife              *)
(*             (ffmpeg.rs:596-597, 687) applied to its inputs.              *)
(*   SpecSupFair   SpecSup with the function's own steps taken (liveness). *)
(*   SpecSupSelectFair  the supervised run of short outputs with a fair    *)
(*                 select and a child that closes its stdout (liveness).   *)
(*   SpecValidate  validate_duration (validation.rs:6-10) on f64 inputs.   *)
(*   SpecParse     parse_frame_rate (ffmpeg.rs:204-216) on its strings.    *)
(*   SpecReply     the commands' match on the pipeline's Result            *)
(*                 (commands.rs:159-202, 270-310, 370-410, 489-520).       *)
(*   SpecEncode    the encode arguments of convert_video_rife              *)
(*                 (ffmpeg.rs:757-766, 859-866) on f64 inputs.             *)
(***************************************************************************)
EXTENDS Integers, Sequences, FiniteSets, TLC

(* ------------------------------ bounds --------------------------------- *)

\* Concurrent invocations (tauri dispatches each command as its own task).
NumCallers == 2

Callers == 1..NumCallers

(* ------------------------------ state ---------------------------------- *)

VARIABLES
    \* ConversionState (commands.rs:10-22)
    is_converting,      \* Mutex<bool>
    cancel_flag,        \* AtomicBool
    \* one record per invocation of a job-initiating command
    pc,                 \* where the invocation stands in its command
    cmd,                \* which command it runs
    result,             \* the pipeline's Result, once the pipeline returned
    outcome,            \* what the command returned to its caller
    \* history: the invocations that set is_converting and did not clear it yet
    holders,
    \* history: where the value of a set cancel_flag comes from: "this_job", a
    \* cancel_conversion since the guard's holder was accepted; "stale", from
    \* before that; "cleared" once the holder's reset has cleared a stale one
    flag_origin,
    \* convert_video_minterpolate (ffmpeg.rs:284-563), one run
    sup_pc,             \* where the function stands
    child,              \* the ffmpeg child: none, running, exited, killed
    input_duration,     \* its input_duration argument, in seconds
    current_frame,      \* ffmpeg.rs:477
    current_fps,        \* ffmpeg.rs:478
    current_time_ms,    \* ffmpeg.rs:479
    current_speed,      \* ffmpeg.rs:480
    emitted,            \* the ProgressEvents handed to progress_callback, in order
    lines_read,         \* stdout lines consumed so far
    stdout_log,         \* history: the stdout lines read, in order
    sup_result,         \* what the function returned
    stderr_seen,        \* a stderr line was read and logged (ffmpeg.rs:540)
    sup_diag,           \* what the text of the returned Err is made of
    \* history: where the run stood when cancel_flag was set while its child ran
    sup_cancelled_at,
    \* the child is blocked in a write to its stderr pipe, which is full
    child_blocked,
    \* history: what the select yielded last
    last_read,
    \* convert_video_rife (ffmpeg.rs:575-899), one run after the other in one
    \* OS process
    rife_pc,            \* where the function stands
    overflow_checks,    \* the build: arithmetic overflow panics (debug) or wraps
    target_fps,         \* its target_fps argument
    input_fps,          \* its input_fps argument
    rife_multiplier,    \* ffmpeg.rs:597
    frame_count,        \* ffmpeg.rs:659
    target_frame_count, \* ffmpeg.rs:687
    output_frame_count, \* ffmpeg.rs:710
    has_audio,          \* ffmpeg.rs:754
    rife_events,        \* the progress percentages handed to progress_callback
    rife_result,        \* what the function returned
    temp_dir,           \* the tree $TMP/vmagic_rife_<pid>: whether it exists, the
                        \* entries of input/ and output/, whether audio.aac exists
    running,            \* the child processes now running
    \* history of the run
    spawned,            \* the child processes it spawned
    extract_status,     \* how the extract process exited
    interpolate_status, \* how the interpolation process exited
    tree_created,       \* both create_dir_all calls succeeded
    rife_cancelled_in,  \* the child that ran when cancel_flag was set
    \* the multiplier arithmetic applied to one input (ffmpeg.rs:596-597, 687)
    calc

jobVars == <<is_converting, pc, cmd, result, outcome, holders, flag_origin>>

supVars == <<sup_pc, child, input_duration, current_frame, current_fps,
             current_time_ms, current_speed, emitted, lines_read, stdout_log, sup_result,
             stderr_seen, sup_diag, sup_cancelled_at, child_blocked, last_read>>

rifeVars == <<rife_pc, overflow_checks, target_fps, input_fps, rife_multiplier,
              frame_count, target_frame_count, output_frame_count, has_audio,
              rife_events, rife_result, temp_dir, running, spawned,
              extract_status, interpolate_status, tree_created,
              rife_cancelled_in>>

vars == <<is_converting, cancel_flag, pc, cmd, result, outcome, holders,
          flag_origin,
          sup_pc, child, input_duration, current_frame, current_fps,
          current_time_ms, current_speed, emitted, lines_read, stdout_log, sup_result,
          stderr_seen, sup_diag, sup_cancelled_at, child_blocked, last_read,
          rife_pc, overflow_checks, target_fps, input_fps, rife_multiplier,
          frame_count, target_frame_count, output_frame_count, has_audio,
          rife_events, rife_result, temp_dir, running, spawned,
          extract_status, interpolate_status, tree_created, rife_cancelled_in,
          calc>>

\* What an action of one layer leaves alone.
notJobVars == <<supVars, rifeVars, calc>>
notSupVars == <<jobVars, rifeVars, calc>>
notRifeVars == <<jobVars, supVars, calc>>

\* The four job-initiating commands (lib.rs:22-32).
Commands == {"convert_video", "upscale_video", "compress_video", "process_audio"}

\* The commands whose pipeline functions are in ffmpeg.rs as given
\* (convert_video_minterpolate, convert_video_rife).
LocalPipelineCommands == {"convert_video"}

\* The commands that probe the produced output after the guard's release
\* (commands.rs:273, 371).
ReprobeCommands == {"upscale_video", "compress_video"}

\* What a pipeline function returns, as far as the command layer tells the
\* results apart: Ok, or an Err whose text does or does not contain one of the
\* markers tested at commands.rs:188 ("cancelled", the Japanese marker).
\*   ErrCancelFlag     the pipeline read cancel_flag as set (ffmpeg.rs:487, 647, 725)
\*   ErrMarkerInText   another error whose embedded text contains a marker
\*   ErrPlain          an error without a marker
PipelineResults == {"Ok", "ErrCancelFlag", "ErrMarkerInText", "ErrPlain"}

HasCancelMarker(r) == r \in {"ErrCancelFlag", "ErrMarkerInText"}

Outcomes == {"Rejected", "Success", "Cancelled", "Failed"}

(* ------------------------------ Init ----------------------------------- *)

\* Nothing was read from the child's pipes yet.
NoRead == [stream |-> "none", event |-> "none", marker |-> "none"]

\* ConversionState::default (commands.rs:15-22), no invocation under way.
JobInit ==
    /\ is_converting = FALSE
    /\ pc = [i \in Callers |-> "idle"]
    /\ cmd = [i \in Callers |-> "none"]
    /\ result = [i \in Callers |-> "none"]
    /\ outcome = [i \in Callers |-> "none"]
    /\ holders = {}
    /\ flag_origin = "none"

\* No run of convert_video_minterpolate under way.
SupInit ==
    /\ sup_pc = "idle"
    /\ child = "none"
    /\ input_duration = 0
    /\ current_frame = 0
    /\ current_fps = 0
    /\ current_time_ms = 0
    /\ current_speed = ""
    /\ emitted = <<>>
    /\ lines_read = 0
    /\ stdout_log = <<>>
    /\ sup_result = "none"
    /\ stderr_seen = FALSE
    /\ sup_diag = {}
    /\ sup_cancelled_at = "none"
    /\ child_blocked = FALSE
    /\ last_read = NoRead

\* The temporary tree does not exist.
NoTree == [exists |-> FALSE, input |-> 0, output |-> 0, audio |-> FALSE]

\* No run of convert_video_rife under way, nothing left in the temporary
\* directory.
RifeInit ==
    /\ rife_pc = "idle"
    /\ target_fps = <<>>
    /\ input_fps = <<>>
    /\ rife_multiplier = <<>>
    /\ frame_count = -1
    /\ target_frame_count = <<>>
    /\ output_frame_count = -1
    /\ has_audio = FALSE
    /\ rife_events = <<>>
    /\ rife_result = "none"
    /\ temp_dir = NoTree
    /\ running = {}
    /\ spawned = {}
    /\ extract_status = "none"
    /\ interpolate_status = "none"
    /\ tree_created = FALSE
    /\ rife_cancelled_in = "none"

Init ==
    /\ JobInit
    /\ SupInit
    /\ RifeInit
    /\ cancel_flag = FALSE
    /\ overflow_checks = FALSE
    /\ calc = <<>>

(* --------------------------- command layer ----------------------------- *)

\* StartJob without the test of is_converting: the flag is set whatever its
\* value (a guard that does not test, or tests outside the mutex).
StartJob_NoTest(i, c) ==
    /\ UNCHANGED notJobVars
    /\ pc[i] = "idle"
    /\ cmd' = [cmd EXCEPT ![i] = c]
    /\ result' = [result EXCEPT ![i] = "none"]
    /\ is_converting' = TRUE
    /\ holders' = holders \cup {i}
    /\ pc' = [pc EXCEPT ![i] = "reset"]
    /\ outcome' = [outcome EXCEPT ![i] = "none"]
    /\ flag_origin' = IF cancel_flag THEN "stale" ELSE "none"
    /\ UNCHANGED cancel_flag

\* StartJob with the reset of cancel_flag moved in front of the guard block:
\* a rejected attempt then clears the running job's cancellation.
StartJob_ResetFirst(i, c) ==
    /\ UNCHANGED notJobVars
    /\ pc[i] = "idle"
    /\ cmd' = [cmd EXCEPT ![i] = c]
    /\ result' = [result EXCEPT ![i] = "none"]
    /\ cancel_flag' = FALSE
    /\ flag_origin' = "none"
    /\ IF is_converting
         THEN /\ pc' = [pc EXCEPT ![i] = "done"]
              /\ outcome' = [outcome EXCEPT ![i] = "Rejected"]
              /\ UNCHANGED <<is_converting, holders>>
         ELSE /\ is_converting' = TRUE
              /\ holders' = holders \cup {i}
              /\ pc' = [pc EXCEPT ![i] = "reset"]
              /\ outcome' = [outcome EXCEPT ![i] = "none"]

\* The guard block at the head of every job-initiating command
\* (commands.rs:84-91, 226-233, 325-332, 448-455): under the mutex, test
\* is_converting; if set return the "already running" error, else set it.
StartJob(i, c) ==
    /\ UNCHANGED notJobVars
    /\ pc[i] = "idle"
    /\ cmd' = [cmd EXCEPT ![i] = c]
    /\ result' = [result EXCEPT ![i] = "none"]
    /\ IF is_converting
         THEN /\ pc' = [pc EXCEPT ![i] = "done"]
              /\ outcome' = [outcome EXCEPT ![i] = "Rejected"]
              /\ UNCHANGED <<is_converting, holders, flag_origin>>
         ELSE /\ is_converting' = TRUE
              /\ holders' = holders \cup {i}
              /\ pc' = [pc EXCEPT ![i] = "reset"]
              /\ outcome' = [outcome EXCEPT ![i] = "none"]
              /\ flag_origin' = IF cancel_flag THEN "stale" ELSE "none"
    /\ UNCHANGED cancel_flag

\* The command without the store of commands.rs:94: the flag stays as the
\* job found it.
ResetCancelFlag_NoStore(i) ==
    /\ UNCHANGED notJobVars
    /\ pc[i] = "reset"
    /\ pc' = [pc EXCEPT ![i] = "probe"]
    /\ UNCHANGED <<is_converting, cancel_flag, cmd, result, outcome, holders,
                   flag_origin>>

\* state.cancel_flag.store(false) (commands.rs:94, 236, 335, 458), after the
\* mutex was dropped. A flag set before the job was accepted is "cleared".
ResetCancelFlag(i) ==
    /\ UNCHANGED notJobVars
    /\ pc[i] = "reset"
    /\ cancel_flag' = FALSE
    /\ flag_origin' = IF flag_origin = "stale" THEN "cleared" ELSE "none"
    /\ pc' = [pc EXCEPT ![i] = "probe"]
    /\ UNCHANGED <<is_converting, cmd, result, outcome, holders>>

\* get_video_info(&input_path).await? / get_audio_info(..).await?
\* (commands.rs:100, 242, 341, 464): on Err the command returns at the `?`.
ProbeInput(i) ==
    /\ UNCHANGED notJobVars
    /\ pc[i] = "probe"
    /\ \E ok \in BOOLEAN :
         IF ok
           THEN /\ pc' = [pc EXCEPT ![i] = "pipeline"]
                /\ UNCHANGED outcome
           ELSE /\ pc' = [pc EXCEPT ![i] = "done"]
                /\ outcome' = [outcome EXCEPT ![i] = "Failed"]
    /\ UNCHANGED <<is_converting, cancel_flag, cmd, result, holders, flag_origin>>

\* What a pipeline can return given the flag it reads while it runs: the
\* cancellation error needs the flag to be set when the pipeline reads it.
ReturnableResults ==
    IF cancel_flag THEN PipelineResults ELSE PipelineResults \ {"ErrCancelFlag"}

\* convert_video's pipeline call (commands.rs:115-151), seen from the command:
\* ffmpeg::convert_video_rife or ffmpeg::convert_video_minterpolate runs to its
\* return.
ConvertPipeline(i) ==
    /\ UNCHANGED notJobVars
    /\ pc[i] = "pipeline"
    /\ cmd[i] \in LocalPipelineCommands
    /\ \E r \in ReturnableResults : result' = [result EXCEPT ![i] = r]
    /\ pc' = [pc EXCEPT ![i] = "release"]
    /\ UNCHANGED <<is_converting, cancel_flag, cmd, outcome, holders, flag_origin>>

\* The pipeline calls of upscale_video, compress_video and process_audio
\* (commands.rs:248-262, 348-361, 468-480): the called functions
\* (upscale_video_realesrgan, compress_video, process_audio_with_padding) are
\* not in ffmpeg.rs as given; they take the same cancel_flag and return a
\* Result<_, String>.
ExternalPipeline(i) ==
    /\ UNCHANGED notJobVars
    /\ pc[i] = "pipeline"
    /\ cmd[i] \notin LocalPipelineCommands
    /\ \E r \in ReturnableResults : result' = [result EXCEPT ![i] = r]
    /\ pc' = [pc EXCEPT ![i] = "release"]
    /\ UNCHANGED <<is_converting, cancel_flag, cmd, outcome, holders, flag_origin>>

\* "Reset converting flag" (commands.rs:153-157, 264-268, 363-367, 482-486).
ReleaseGuard(i) ==
    /\ UNCHANGED notJobVars
    /\ pc[i] = "release"
    /\ is_converting' = FALSE
    /\ holders' = holders \ {i}
    /\ flag_origin' = IF cancel_flag THEN "stale" ELSE "none"
    /\ pc' = [pc EXCEPT ![i] = "match"]
    /\ UNCHANGED <<cancel_flag, cmd, result, outcome>>

\* match result telling a cancellation by the pipeline's having read the flag
\* instead of by the marker in the error text.
MatchResult_FlagOnly(i) ==
    /\ UNCHANGED notJobVars
    /\ pc[i] = "match"
    /\ IF result[i] = "Ok"
         THEN IF cmd[i] \in ReprobeCommands
                THEN /\ pc' = [pc EXCEPT ![i] = "reprobe"]
                     /\ UNCHANGED outcome
                ELSE /\ pc' = [pc EXCEPT ![i] = "done"]
                     /\ outcome' = [outcome EXCEPT ![i] = "Success"]
         ELSE /\ pc' = [pc EXCEPT ![i] = "done"]
              /\ outcome' = [outcome EXCEPT ![i] =
                               IF result[i] = "ErrCancelFlag" THEN "Cancelled"
                                                              ELSE "Failed"]
    /\ UNCHANGED <<is_converting, cancel_flag, cmd, result, holders, flag_origin>>

\* match result (commands.rs:159-202, 270-309, 369-409, 488-520).
MatchResult(i) ==
    /\ UNCHANGED notJobVars
    /\ pc[i] = "match"
    /\ IF result[i] = "Ok"
         THEN IF cmd[i] \in ReprobeCommands
                THEN /\ pc' = [pc EXCEPT ![i] = "reprobe"]
                     /\ UNCHANGED outcome
                ELSE /\ pc' = [pc EXCEPT ![i] = "done"]
                     /\ outcome' = [outcome EXCEPT ![i] = "Success"]
         ELSE /\ pc' = [pc EXCEPT ![i] = "done"]
              /\ outcome' = [outcome EXCEPT ![i] =
                               IF HasCancelMarker(result[i]) THEN "Cancelled"
                                                             ELSE "Failed"]
    /\ UNCHANGED <<is_converting, cancel_flag, cmd, result, holders, flag_origin>>

\* get_video_info(&output_path).await? in the Ok arm of upscale_video and
\* compress_video (commands.rs:273, 371).
ReprobeOutput(i) ==
    /\ UNCHANGED notJobVars
    /\ pc[i] = "reprobe"
    /\ \E ok \in BOOLEAN :
         outcome' = [outcome EXCEPT ![i] = IF ok THEN "Success" ELSE "Failed"]
    /\ pc' = [pc EXCEPT ![i] = "done"]
    /\ UNCHANGED <<is_converting, cancel_flag, cmd, result, holders, flag_origin>>

\* The caller has its answer; the frontend may invoke a command again.
Returned(i) ==
    /\ UNCHANGED notJobVars
    /\ pc[i] = "done"
    /\ pc' = [pc EXCEPT ![i] = "idle"]
    /\ cmd' = [cmd EXCEPT ![i] = "none"]
    /\ result' = [result EXCEPT ![i] = "none"]
    /\ outcome' = [outcome EXCEPT ![i] = "none"]
    /\ UNCHANGED <<is_converting, cancel_flag, holders, flag_origin>>

\* cancel_conversion clearing is_converting as well: the request releases
\* the guard of the job it cancels.
cancel_conversion_ReleasesGuard ==
    /\ cancel_flag' = TRUE
    /\ sup_cancelled_at' =
          IF child = "running" /\ ~cancel_flag /\ sup_cancelled_at = "none"
            THEN sup_pc ELSE sup_cancelled_at
    /\ rife_cancelled_in' =
          IF running # {} /\ ~cancel_flag /\ rife_cancelled_in = "none"
            THEN CHOOSE r \in running : TRUE ELSE rife_cancelled_in
    /\ flag_origin' = IF holders # {} THEN "this_job" ELSE flag_origin
    /\ is_converting' = FALSE
    /\ UNCHANGED <<pc, cmd, result, outcome, holders>>
    /\ UNCHANGED <<sup_pc, child, input_duration, current_frame, current_fps,
                   current_time_ms, current_speed, emitted, lines_read, stdout_log,
                   sup_result, stderr_seen, sup_diag, last_read,
                   child_blocked>>
    /\ UNCHANGED <<rife_pc, overflow_checks, target_fps, input_fps,
                   rife_multiplier, frame_count, target_frame_count,
                   output_frame_count, has_audio, rife_events, rife_result,
                   temp_dir, running, spawned, extract_status,
                   interpolate_status, tree_created, calc>>

\* cancel_conversion (commands.rs:205-210).
cancel_conversion ==
    /\ cancel_flag' = TRUE
    /\ sup_cancelled_at' =
          IF child = "running" /\ ~cancel_flag /\ sup_cancelled_at = "none"
            THEN sup_pc ELSE sup_cancelled_at
    /\ rife_cancelled_in' =
          IF running # {} /\ ~cancel_flag /\ rife_cancelled_in = "none"
            THEN CHOOSE r \in running : TRUE ELSE rife_cancelled_in
    /\ flag_origin' = IF holders # {} THEN "this_job" ELSE flag_origin
    /\ UNCHANGED <<is_converting, pc, cmd, result, outcome, holders>>
    /\ UNCHANGED <<sup_pc, child, input_duration, current_frame, current_fps,
                   current_time_ms, current_speed, emitted, lines_read, stdout_log,
                   sup_result, stderr_seen, sup_diag, last_read,
                   child_blocked>>
    /\ UNCHANGED <<rife_pc, overflow_checks, target_fps, input_fps,
                   rife_multiplier, frame_count, target_frame_count,
                   output_frame_count, has_audio, rife_events, rife_result,
                   temp_dir, running, spawned, extract_status,
                   interpolate_status, tree_created, calc>>

JobStep(i) ==
    \/ \E c \in Commands : StartJob(i, c)
    \/ ResetCancelFlag(i)
    \/ ProbeInput(i)
    \/ ConvertPipeline(i)
    \/ ExternalPipeline(i)
    \/ ReleaseGuard(i)
    \/ MatchResult(i)
    \/ ReprobeOutput(i)
    \/ Returned(i)

Next ==
    \/ \E i \in Callers : JobStep(i)
    \/ cancel_conversion

Spec == Init /\ [][Next]_vars

(* ------------------------ properties: the guard ------------------------ *)

\* C1: at most one invocation is between its successful acquire (it set
\* is_converting) and its release (it cleared it) at any time, and while one
\* is, is_converting is set: two start attempts are never both accepted.
C1_AtMostOneHolder ==
    /\ Cardinality(holders) <= 1
    /\ holders # {} => is_converting

\* C1 witness: one invocation holds the guard and runs its pipeline while the
\* other invocation's start attempt was turned away.
C1_Witness ==
    \E i, j \in Callers :
        /\ i # j
        /\ holders = {i}
        /\ pc[i] = "pipeline"
        /\ outcome[j] = "Rejected"

\* C2: whenever every accepted job has terminated (no invocation is inside a
\* command), is_converting is false, so the next start attempt is accepted.
C2_GuardFreeWhenNoJobRuns ==
    (\A i \in Callers : pc[i] \in {"idle", "done"}) => ~is_converting

\* The step in which invocation i is turned away as "already running".
RejectedStep(i) ==
    /\ pc[i] = "idle"
    /\ pc'[i] = "done"
    /\ outcome'[i] = "Rejected"

\* C3: a start attempt made while another job is active is rejected and
\* changes nothing of the shared state or of the other invocations:
\* is_converting stays true, cancel_flag keeps its value, the guard's holder
\* stays, and no other invocation moves.
C3_RejectionChangesNothing ==
    [][\A i \in Callers :
          RejectedStep(i) =>
              /\ is_converting /\ is_converting'
              /\ cancel_flag' = cancel_flag
              /\ holders' = holders
              /\ \A j \in Callers \ {i} :
                    /\ pc'[j] = pc[j]
                    /\ result'[j] = result[j]
                    /\ outcome'[j] = outcome[j]]_vars

\* C3 witness: an attempt was rejected while the active job's cancellation
\* flag was set, and the flag is still set.
C3_Witness ==
    \E i, j \in Callers :
        /\ i # j
        /\ outcome[i] = "Rejected"
        /\ j \in holders
        /\ pc[j] = "pipeline"
        /\ cancel_flag

\* C13: a pipeline error is reported as Cancelled exactly when its text holds
\* a cancellation marker, every other pipeline error is returned as Failed,
\* Cancelled is returned for nothing but such an error, and every invocation
\* returns one of Success, Cancelled, Failed (the rejection of a start attempt
\* is an Err with its own diagnostic, a Failed).
C13_CancelledIffMarker ==
    \A i \in Callers :
        pc[i] = "done" =>
            /\ outcome[i] \in {"Success", "Cancelled", "Failed", "Rejected"}
            /\ result[i] \in PipelineResults \ {"Ok"} =>
                  /\ outcome[i] = "Cancelled" <=> HasCancelMarker(result[i])
                  /\ outcome[i] = "Failed" <=> ~HasCancelMarker(result[i])
            /\ outcome[i] = "Cancelled" => result[i] \in PipelineResults \ {"Ok"}
            /\ result[i] = "Ok" => outcome[i] \in {"Success", "Failed"}
            /\ result[i] = "Ok" /\ cmd[i] \notin ReprobeCommands
                  => outcome[i] = "Success"

\* C13 witness: an error that is no observed cancellation but holds a marker
\* in its text was reported as Cancelled, while another invocation's plain
\* error was reported as Failed.
C13_Witness ==
    \E i, j \in Callers :
        /\ pc[i] = "done" /\ result[i] = "ErrMarkerInText" /\ outcome[i] = "Cancelled"
        /\ pc[j] = "done" /\ result[j] = "ErrPlain" /\ outcome[j] = "Failed"

\* C28: a request made while no job holds the guard never cancels a later
\* job. The accepted job clears the flag before it goes on to its probe and
\* pipeline, no flag from before the acceptance is set while a pipeline runs,
\* and a pipeline that returns the cancellation error has read a flag set by
\* a request made after its job was accepted.
C28_StaleRequestNeverCancels ==
    /\ [][\A i \in Callers :
            (pc[i] = "reset" /\ pc'[i] # "reset") => ~cancel_flag']_vars
    /\ [](\A i \in Callers : pc[i] = "pipeline" => flag_origin # "stale")
    /\ [][\A i \in Callers :
            (pc[i] = "pipeline" /\ result'[i] = "ErrCancelFlag")
                => flag_origin = "this_job"]_vars

\* C28 witness: a job that was accepted with the flag set from before runs
\* its pipeline with the flag cleared.
C28_Witness ==
    \E i \in Callers :
        pc[i] = "pipeline" /\ ~cancel_flag /\ flag_origin = "cleared"

\* C34: cancel_conversion only sets cancel_flag to true. It can be called in
\* every state (it has no failing path); its step, the only one in which no
\* invocation of a job command moves, leaves cancel_flag set and is_converting
\* and every invocation as they were (it neither releases nor acquires the
\* guard); and called with the flag already set it changes nothing of the
\* program's state.
C34_CancelOnlySetsFlag ==
    /\ [](ENABLED cancel_conversion)
    /\ [][pc' = pc =>
            /\ cancel_flag'
            /\ UNCHANGED <<is_converting, cmd, result, outcome, holders>>]_vars
    /\ [][(pc' = pc /\ cancel_flag) =>
            UNCHANGED <<is_converting, cancel_flag, pc, cmd, result, outcome>>]_vars

\* C34 witness: a request made while a job runs its pipeline: the flag is
\* set by it and the job still holds the guard.
C34_Witness ==
    \E i \in Callers :
        /\ pc[i] = "pipeline"
        /\ holders = {i}
        /\ is_converting
        /\ cancel_flag
        /\ flag_origin = "this_job"

\* C30: two job-initiating commands never execute overlapping work: from the
\* moment a job is accepted (its guard block set is_converting) until its
\* command has its outcome, the re-probe of the produced output included, no
\* other job is between its acceptance and its outcome.
C30_NoOverlappingWork ==
    \A i, j \in Callers :
        (/\ pc[i] \in {"reset", "probe", "pipeline", "release", "match", "reprobe"}
         /\ pc[j] \in {"reset", "probe", "pipeline", "release", "match", "reprobe"})
            => i = j

\* C17: a cancellation requested after the job was accepted stays set until
\* that job ends (its guard is released): no step clears it, neither the
\* job's own reset nor another command, so it is set when the job's pipeline
\* reads the flag.
C17_RequestSurvivesUntilJobEnds ==
    [][(holders # {} /\ cancel_flag /\ flag_origin = "this_job")
          => (cancel_flag' \/ holders' = {})]_vars

\* C18: between a job's setting is_converting and its clearing cancel_flag no
\* other command takes a step (no other start attempt, no cancel_conversion),
\* and no pipeline runs with a cancel_flag value from before its job was
\* accepted.
C18_AcquireAndResetAreOneSection ==
    /\ [][(\E i \in Callers : pc[i] = "reset")
            => (\E i \in Callers : pc[i] = "reset" /\ pc'[i] = "probe")]_vars
    /\ [](\A i \in Callers :
            (pc[i] = "pipeline" /\ cancel_flag) => flag_origin = "this_job")


(* ------------------- exact arithmetic on f64 values --------------------- *)

\* The f64 quantities of a progress computation are kept as exact fractions
\* <<numerator, denominator>> in lowest terms, denominator > 0.
RECURSIVE GCD(_, _)
GCD(a, b) == IF b = 0 THEN a ELSE GCD(b, a % b)

RatNorm(n, d) ==
    LET g == GCD(n, d) IN IF g = 0 THEN <<0, 1>> ELSE <<n \div g, d \div g>>

RatDiv(r, k) == RatNorm(r[1], r[2] * k)
RatMul(r, k) == LET g == GCD(k, r[2]) IN RatNorm(r[1] * (k \div g), r[2] \div g)
RatLE(r, q) == r[1] * q[2] <= q[1] * r[2]
\* f64::min
RatMin(r, q) == IF RatLE(r, q) THEN r ELSE q

(* ------------- convert_video_minterpolate: the supervised run ----------- *)

\* Most stdout lines one run consumes.
MaxLines == 4

\* A stdout line, by what the four regexes (ffmpeg.rs:472-475) and the two
\* contains tests (ffmpeg.rs:509, 527) find in it: the digits captured after
\* frame=, fps=, out_time_ms= and speed= (-1 and "": no match), and the text
\* after progress= ("none": the line does not contain "progress=").
Line(f, r, t, s, p) ==
    [frame |-> f, fps |-> r, out_time_ms |-> t, speed |-> s, progress |-> p]

\* A capture that str::parse rejects: digits beyond u64 for (\d+), a text such
\* as "1.2.3" or "." for ([\d.]+).
Unparsable == -2

\* caps[1].parse().unwrap_or(0) / unwrap_or(0.0) (ffmpeg.rs:496, 499, 502).
ParseOrZero(capture) == IF capture = Unparsable THEN 0 ELSE capture

\* The lines the child may write: ffmpeg -progress pipe:1 writes one key=value
\* per line; out_time_ms is in microseconds.
StdoutLines ==
    { Line(5, Unparsable, -1, "", "none"),
      Line(9, 25, -1, "2x", "none"),
      Line(-1, -1, 10000000, "", "none"),
      Line(-1, -1, 30000000, "", "none"),
      Line(-1, -1, -1, "", "continue"),
      Line(-1, -1, -1, "", "end") }

\* The input durations the probe hands over (VideoInfo.duration, seconds): 0 is
\* the default of a missing duration (ffmpeg.rs:179).
InputDurations == {0, 7, 20}

\* format_time (ffmpeg.rs:566-571) of a time given in microseconds: hours,
\* minutes, and the seconds rounded to hundredths ({:05.2}).
format_time(us) ==
    LET whole == us \div 1000000
    IN  << whole \div 3600,
           (whole % 3600) \div 60,
           ((us % 60000000) + 5000) \div 10000 >>

\* ffmpeg.rs:510-515 without the clamp.
Progress_NoClamp(time_ms, duration) ==
    IF duration > 0
      THEN RatMul(RatDiv(RatNorm(time_ms, 1000000), duration), 100)
      ELSE <<0, 1>>

\* "Calculate progress" (ffmpeg.rs:510-515).
Progress(time_ms, duration) ==
    IF duration > 0
      THEN RatMin(RatMul(RatDiv(RatNorm(time_ms, 1000000), duration), 100),
                  <<100, 1>>)
      ELSE <<0, 1>>

\* The job reaches the pipeline call: convert_video has cleared cancel_flag
\* and probed the input (commands.rs:93-101) and calls
\* convert_video_minterpolate with the probed duration (commands.rs:135-150).
SupBegin ==
    /\ UNCHANGED notSupVars
    /\ sup_pc = "idle"
    /\ cancel_flag' = FALSE
    /\ \E d \in InputDurations : input_duration' = d
    /\ sup_pc' = "spawn"
    /\ child' = "none"
    /\ current_frame' = 0
    /\ current_fps' = 0
    /\ current_time_ms' = 0
    /\ current_speed' = ""
    /\ emitted' = <<>>
    /\ lines_read' = 0
    /\ stdout_log' = <<>>
    /\ sup_result' = "none"
    /\ stderr_seen' = FALSE
    /\ sup_diag' = {}
    /\ sup_cancelled_at' = "none"
    /\ child_blocked' = FALSE
    /\ last_read' = NoRead

\* Command::new("ffmpeg")...spawn() (ffmpeg.rs:458-463) and the locals of
\* ffmpeg.rs:465-480.
SupSpawn ==
    /\ UNCHANGED notSupVars
    /\ sup_pc = "spawn"
    /\ \/ /\ child' = "running"
          /\ sup_pc' = "check"
          /\ UNCHANGED sup_result
          /\ UNCHANGED sup_diag
       \/ /\ sup_result' = "ErrSpawn"
          /\ sup_diag' = {"fixed text", "os error"}
          /\ sup_pc' = "returned"
          /\ UNCHANGED child
    /\ UNCHANGED <<cancel_flag, input_duration, current_frame, current_fps,
                   current_time_ms, current_speed, emitted, lines_read, stdout_log,
                   stderr_seen, sup_cancelled_at, child_blocked, last_read>>

\* The check of ffmpeg.rs:484-488 without child.kill().await: the function
\* returns the cancellation error and leaves the child to itself.
SupCheckCancel_NoKill ==
    /\ UNCHANGED notSupVars
    /\ sup_pc = "check"
    /\ IF cancel_flag
         THEN /\ sup_result' = "ErrCancelled"
              /\ sup_diag' = {"fixed text", "cancel marker"}
              /\ sup_pc' = "returned"
              /\ UNCHANGED child
         ELSE /\ sup_pc' = "select"
              /\ UNCHANGED <<child, sup_result, sup_diag>>
    /\ UNCHANGED <<cancel_flag, input_duration, current_frame, current_fps,
                   current_time_ms, current_speed, emitted, lines_read, stdout_log,
                   stderr_seen, sup_cancelled_at, child_blocked, last_read>>

\* "Check cancellation" at the head of the loop (ffmpeg.rs:484-488):
\* child.kill().await sends the kill and waits for the child to be gone.
SupCheckCancel ==
    /\ UNCHANGED notSupVars
    /\ sup_pc = "check"
    /\ IF cancel_flag
         THEN /\ child' = "killed"
              /\ sup_result' = "ErrCancelled"
              /\ sup_diag' = {"fixed text", "cancel marker"}
              /\ sup_pc' = "returned"
         ELSE /\ sup_pc' = "select"
              /\ UNCHANGED <<child, sup_result, sup_diag>>
    /\ UNCHANGED <<cancel_flag, input_duration, current_frame, current_fps,
                   current_time_ms, current_speed, emitted, lines_read, stdout_log,
                   stderr_seen, sup_cancelled_at, child_blocked, last_read>>

\* The four captures of ffmpeg.rs:495-506 applied to a line.
FrameAfter_NoKeep(l) == IF l.frame # -1 THEN ParseOrZero(l.frame) ELSE 0
FrameAfter(l) == IF l.frame # -1 THEN ParseOrZero(l.frame) ELSE current_frame
FpsAfter(l) == IF l.fps # -1 THEN ParseOrZero(l.fps) ELSE current_fps
TimeAfter(l) ==
    IF l.out_time_ms # -1 THEN ParseOrZero(l.out_time_ms) ELSE current_time_ms
SpeedAfter(l) == IF l.speed # "" THEN l.speed ELSE current_speed

\* The ProgressEvent of ffmpeg.rs:519-525 built after line l was parsed.
EventAfter(l) ==
    [ progress |-> Progress(TimeAfter(l), input_duration),
      frame |-> FrameAfter(l),
      fps |-> FpsAfter(l),
      time |-> format_time(TimeAfter(l)),
      speed |-> SpeedAfter(l) ]

\* The stdout arm without the break of ffmpeg.rs:527-529: the loop goes round
\* after the end marker as after any other line.
SupStdoutLine_NoBreak ==
    /\ UNCHANGED notSupVars
    /\ sup_pc = "select"
    /\ lines_read < MaxLines
    /\ \E l \in StdoutLines :
         /\ current_frame' = FrameAfter(l)
         /\ current_fps' = FpsAfter(l)
         /\ current_time_ms' = TimeAfter(l)
         /\ current_speed' = SpeedAfter(l)
         /\ emitted' = IF l.progress # "none" THEN Append(emitted, EventAfter(l))
                                              ELSE emitted
         /\ sup_pc' = "check"
         /\ last_read' = [stream |-> "stdout", event |-> "line", marker |-> l.progress]
         /\ stdout_log' = Append(stdout_log, l)
    /\ lines_read' = lines_read + 1
    /\ UNCHANGED <<cancel_flag, child, input_duration, sup_result,
                   stderr_seen, sup_diag, sup_cancelled_at, child_blocked>>

\* The select arm of stdout yielding Ok(Some(text)) (ffmpeg.rs:491-531).
SupStdoutLine ==
    /\ UNCHANGED notSupVars
    /\ sup_pc = "select"
    /\ lines_read < MaxLines
    /\ \E l \in StdoutLines :
         /\ current_frame' = FrameAfter(l)
         /\ current_fps' = FpsAfter(l)
         /\ current_time_ms' = TimeAfter(l)
         /\ current_speed' = SpeedAfter(l)
         /\ emitted' = IF l.progress # "none" THEN Append(emitted, EventAfter(l))
                                              ELSE emitted
         /\ sup_pc' = IF l.progress = "end" THEN "wait" ELSE "check"
         /\ last_read' = [stream |-> "stdout", event |-> "line", marker |-> l.progress]
         /\ stdout_log' = Append(stdout_log, l)
    /\ lines_read' = lines_read + 1
    /\ UNCHANGED <<cancel_flag, child, input_duration, sup_result,
                   stderr_seen, sup_diag, sup_cancelled_at, child_blocked>>

\* The stdout arm treating Ok(None) and Err as the stderr arm does
\* (ffmpeg.rs:541-542): nothing is done and the loop goes round.
SupStdoutEnd_NoBreak ==
    /\ UNCHANGED notSupVars
    /\ sup_pc = "select"
    /\ sup_pc' = "check"
    /\ last_read' = [stream |-> "stdout", event |-> "end", marker |-> "none"]
    /\ UNCHANGED <<cancel_flag, child, input_duration, current_frame,
                   current_fps, current_time_ms, current_speed, emitted,
                   lines_read, stdout_log, sup_result, stderr_seen, sup_diag,
                   sup_cancelled_at, child_blocked>>

\* The select arm of stdout yielding Ok(None) or Err (ffmpeg.rs:532-533):
\* break.
SupStdoutEnd ==
    /\ UNCHANGED notSupVars
    /\ sup_pc = "select"
    /\ sup_pc' = "wait"
    /\ last_read' = [stream |-> "stdout", event |-> "end", marker |-> "none"]
    /\ UNCHANGED <<cancel_flag, child, input_duration, current_frame,
                   current_fps, current_time_ms, current_speed, emitted,
                   lines_read, stdout_log, sup_result, stderr_seen, sup_diag,
                   sup_cancelled_at, child_blocked>>

\* The stderr arm handing its lines to the progress parser as the stdout arm
\* does.
SupStderrEvent_FeedsParser ==
    /\ UNCHANGED notSupVars
    /\ sup_pc = "select"
    /\ sup_pc' = "check"
    /\ \E e \in { [stream |-> "stderr", event |-> "line", marker |-> "none"],
                  [stream |-> "stderr", event |-> "line", marker |-> "continue"],
                  [stream |-> "stderr", event |-> "end", marker |-> "none"] } :
         /\ last_read' = e
         /\ stderr_seen' = (stderr_seen \/ e.event = "line")
         /\ emitted' = IF e.marker # "none"
                         THEN Append(emitted, EventAfter(Line(-1, -1, -1, "", e.marker)))
                         ELSE emitted
    /\ UNCHANGED <<cancel_flag, child, input_duration, current_frame,
                   current_fps, current_time_ms, current_speed,
                   lines_read, stdout_log, sup_result, sup_diag, sup_cancelled_at, child_blocked>>

\* What the stderr arm may yield: a line of diagnostics, a line that holds
\* the text of a progress line ("progress=continue"), or Ok(None) / Err.
StderrEvents ==
    { [stream |-> "stderr", event |-> "line", marker |-> "none"],
      [stream |-> "stderr", event |-> "line", marker |-> "continue"],
      [stream |-> "stderr", event |-> "end", marker |-> "none"] }

\* The select arm of stderr (ffmpeg.rs:536-545): a line is logged, Ok(None)
\* and Err are ignored; the loop goes round.
SupStderrEvent ==
    /\ UNCHANGED notSupVars
    /\ sup_pc = "select"
    /\ sup_pc' = "check"
    /\ \E e \in StderrEvents :
         /\ last_read' = e
         /\ stderr_seen' = (stderr_seen \/ e.event = "line")
    /\ UNCHANGED <<cancel_flag, child, input_duration, current_frame,
                   current_fps, current_time_ms, current_speed, emitted,
                   lines_read, stdout_log, sup_result, sup_diag, sup_cancelled_at, child_blocked>>

\* After the loop nothing reads the child's stderr: stderr_reader is alive
\* until the function returns (ffmpeg.rs:466, 469) and is polled only in the
\* select (ffmpeg.rs:536), so the pipe stays open and is not drained. A child
\* that goes on writing diagnostics fills the pipe's buffer, and its next
\* write blocks.
ChildBlocksOnStderr ==
    /\ UNCHANGED notSupVars
    /\ sup_pc = "wait"
    /\ child = "running"
    /\ ~child_blocked
    /\ child_blocked' = TRUE
    /\ UNCHANGED <<cancel_flag, sup_pc, child, input_duration, current_frame,
                   current_fps, current_time_ms, current_speed, emitted,
                   lines_read, stdout_log, sup_result, stderr_seen, sup_diag,
                   sup_cancelled_at, last_read>>

\* child.wait().await and the test of the status (ffmpeg.rs:549-557). The
\* wait returns a status once the child has exited, which a child blocked in
\* a write does not; it returns an error when the child cannot be waited
\* for, its status having been collected elsewhere (ECHILD), which a child
\* that still runs does not give either.
SupWait ==
    /\ UNCHANGED notSupVars
    /\ sup_pc = "wait"
    /\ \/ /\ ~child_blocked
          /\ child' = "exited"            \* exit status 0
          /\ sup_pc' = "probe"
          /\ UNCHANGED <<sup_result, sup_diag>>
       \/ /\ ~child_blocked
          /\ child' = "failed"            \* non-zero, or ended by a signal
          /\ sup_result' = "ErrExit"
          /\ sup_diag' = {"fixed text", "exit code"}
          /\ sup_pc' = "returned"
       \/ /\ ~child_blocked               \* wait itself failed: the process
          /\ child' = "reaped"            \* has no such child to wait for
          /\ sup_result' = "ErrWait"
          /\ sup_diag' = {"fixed text", "os error"}
          /\ sup_pc' = "returned"
    /\ UNCHANGED <<cancel_flag, input_duration, current_frame, current_fps,
                   current_time_ms, current_speed, emitted, lines_read, stdout_log,
                   stderr_seen, sup_cancelled_at, child_blocked, last_read>>

\* get_video_info(output_path).await? and Ok(output_info.duration)
\* (ffmpeg.rs:559-562).
SupProbeOutput ==
    /\ UNCHANGED notSupVars
    /\ sup_pc = "probe"
    /\ \E ok \in BOOLEAN :
         /\ sup_result' = IF ok THEN "Ok" ELSE "ErrProbe"
         /\ sup_diag' = IF ok THEN {} ELSE {"probe error"}
    /\ sup_pc' = "returned"
    /\ UNCHANGED <<cancel_flag, child, input_duration, current_frame,
                   current_fps, current_time_ms, current_speed, emitted,
                   lines_read, stdout_log, stderr_seen, sup_cancelled_at, child_blocked, last_read>>

\* The command takes the result (commands.rs:153-203); a later job may run.
SupReturned ==
    /\ UNCHANGED notSupVars
    /\ sup_pc = "returned"
    /\ sup_pc' = "idle"
    /\ child' = "none"
    /\ input_duration' = 0
    /\ current_frame' = 0
    /\ current_fps' = 0
    /\ current_time_ms' = 0
    /\ current_speed' = ""
    /\ emitted' = <<>>
    /\ lines_read' = 0
    /\ stdout_log' = <<>>
    /\ sup_result' = "none"
    /\ stderr_seen' = FALSE
    /\ sup_diag' = {}
    /\ sup_cancelled_at' = "none"
    /\ child_blocked' = FALSE
    /\ last_read' = NoRead
    /\ UNCHANGED cancel_flag

SupStep ==
    \/ SupBegin
    \/ SupSpawn
    \/ SupCheckCancel
    \/ SupStdoutLine
    \/ SupStdoutEnd
    \/ SupStderrEvent
    \/ ChildBlocksOnStderr
    \/ SupWait
    \/ SupProbeOutput
    \/ SupReturned

SupNext ==
    \/ SupStep
    \/ cancel_conversion

SpecSup == Init /\ [][SupNext]_vars

\* The steps the function takes by itself are taken: the task is polled by the
\* runtime, and a child that is waited for and is not blocked exits, so that
\* the wait returns its status. What the child writes and when is left to
\* the child: no fairness on the two select arms (ffmpeg.rs:490-546), which
\* complete only when a line or the end of a stream arrives, and none on a
\* failure of the wait itself.
SupFairness ==
    /\ WF_vars(SupSpawn)
    /\ WF_vars(SupCheckCancel)
    /\ WF_vars(SupWait /\ child' \in {"exited", "failed"})
    /\ WF_vars(SupProbeOutput)

SpecSupFair == SpecSup /\ SupFairness

\* Most stdout lines of a run in the specification of the fair select.
LiveLines == 2

\* The supervised run with runs of at most LiveLines stdout lines.
SupLiveNext ==
    \/ SupBegin
    \/ SupSpawn
    \/ SupCheckCancel
    \/ (lines_read < LiveLines /\ SupStdoutLine)
    \/ SupStdoutEnd
    \/ SupStderrEvent
    \/ ChildBlocksOnStderr
    \/ SupWait
    \/ SupProbeOutput
    \/ SupReturned
    \/ cancel_conversion

\* The child closes its stdout in the end and the select between the two
\* streams is fair: tokio::select! (ffmpeg.rs:490) polls its arms in random
\* order, so the stdout arm at its end of stream, ready each time round, is
\* taken in the end, also while the stderr arm completes each time round.
SelectFairness == SF_vars(SupStdoutEnd)

SpecSupSelectFair ==
    Init /\ [][SupLiveNext]_vars /\ SupFairness /\ SelectFairness

(* ------------------ properties: the supervised run --------------------- *)

\* C4: once cancel_flag is set while the child is running and the function
\* is in its read loop (at the check or waiting in the select for the next
\* line), the run kills the child and returns the cancelled outcome, never Ok
\* and no other error.
C4_CancelInLoopGivesCancelled ==
    (sup_pc = "returned" /\ sup_cancelled_at \in {"check", "select"})
        => (sup_result = "ErrCancelled" /\ child = "killed")

\* C15: when the loop ended without a cancellation having been observed, the
\* run waits for the child; a non-zero or signal-terminated exit gives the
\* failure, whose text carries the stderr text that was read, and only exit
\* status 0 lets the run go on to Ok.
C15_ExitStatusDecides ==
    sup_pc = "returned" =>
        /\ child = "failed" <=> sup_result = "ErrExit"
        /\ sup_result = "Ok" => child = "exited"
        /\ (sup_result = "ErrExit" /\ stderr_seen) => "stderr text" \in sup_diag

\* C16: progress_callback is invoked once for each stdout line that holds the
\* marker, when that line is read, and for nothing else: not for a stdout line
\* without the marker, not for anything the stderr arm yields.
C16_OneEventPerMarkerLine ==
    [][sup_pc = "select" =>
          IF last_read'.stream = "stdout" /\ last_read'.event = "line"
               /\ lines_read' = lines_read + 1 /\ last_read'.marker # "none"
            THEN /\ Len(emitted') = Len(emitted) + 1
                 /\ SubSeq(emitted', 1, Len(emitted)) = emitted
            ELSE emitted' = emitted]_vars

\* C16 witness: two stdout lines were read, one with the marker, then a
\* stderr line holding progress-like text; one event was emitted.
C16_Witness ==
    /\ last_read = [stream |-> "stderr", event |-> "line", marker |-> "continue"]
    /\ lines_read = 2
    /\ Len(emitted) = 1

\* C21: the stdout line that holds the end marker gets exactly one event, and
\* with it the function leaves the loop for the wait on the child's exit: from
\* then on, until it returns, it reads no stdout line and calls
\* progress_callback no more, and it does not go back to the select (it does
\* not wait for the stream to close).
C21_EndMarkerLeavesLoop ==
    /\ [][(sup_pc = "select" /\ lines_read' = lines_read + 1
              /\ last_read'.marker = "end")
            => /\ sup_pc' = "wait"
               /\ Len(emitted') = Len(emitted) + 1
               /\ SubSeq(emitted', 1, Len(emitted)) = emitted]_vars
    /\ [][(last_read.marker = "end" /\ sup_pc # "idle")
            => \/ sup_pc' = "idle"
               \/ /\ sup_pc' \in {"wait", "probe", "returned"}
                  /\ lines_read' = lines_read
                  /\ emitted' = emitted
                  /\ last_read' = last_read]_vars

\* C21 witness: the end marker came as the second line, with lines left to
\* read; the run went on to the wait and returned Ok with the two lines read
\* and the one event.
C21_Witness ==
    /\ last_read = [stream |-> "stdout", event |-> "line", marker |-> "end"]
    /\ sup_pc = "returned"
    /\ sup_result = "Ok"
    /\ lines_read = 2
    /\ Len(emitted) = 1

\* The stdout lines read so far that hold the marker, by their place in the
\* order of reading.
MarkerLines == {n \in 1..Len(stdout_log) : stdout_log[n].progress # "none"}

\* The place of the k-th line that holds the marker.
MarkerLine(k) ==
    CHOOSE n \in MarkerLines : Cardinality({m \in MarkerLines : m <= n}) = k

\* The last of the first n lines read that carries the field, 0 if none does.
LastCarrying(field, n) ==
    LET carrying == {i \in 1..n : IF field = "speed" THEN stdout_log[i].speed # ""
                                  ELSE stdout_log[i][field] # -1}
    IN  IF carrying = {} THEN 0
        ELSE CHOOSE i \in carrying : \A j \in carrying : j <= i

\* The value of a numeric field after the first n lines: the number read from
\* the last line carrying it (0 where its text is no number), 0 before the
\* field was seen.
LatestNumber(field, n) ==
    LET i == LastCarrying(field, n)
    IN  IF i = 0 THEN 0
        ELSE IF stdout_log[i][field] = Unparsable THEN 0
        ELSE stdout_log[i][field]

LatestSpeed(n) ==
    LET i == LastCarrying("speed", n)
    IN  IF i = 0 THEN "" ELSE stdout_log[i].speed

\* C22: the four fields accumulate over the stdout lines of one run. After any
\* number of lines each field holds what the last line carrying it gave (0 or
\* the empty text before it was first seen), and the k-th emitted event holds
\* the fields as they are once the k-th marker line is read.
C22_FieldsAccumulate ==
    sup_pc # "idle" =>
        /\ current_frame = LatestNumber("frame", Len(stdout_log))
        /\ current_fps = LatestNumber("fps", Len(stdout_log))
        /\ current_time_ms = LatestNumber("out_time_ms", Len(stdout_log))
        /\ current_speed = LatestSpeed(Len(stdout_log))
        /\ Len(emitted) = Cardinality(MarkerLines)
        /\ \A k \in 1..Len(emitted) :
              LET n == MarkerLine(k)
              IN  /\ emitted[k].frame = LatestNumber("frame", n)
                  /\ emitted[k].fps = LatestNumber("fps", n)
                  /\ emitted[k].time = format_time(LatestNumber("out_time_ms", n))
                  /\ emitted[k].speed = LatestSpeed(n)

\* C22 witness: frame 5 then frame 9 with rate and speed, then the elapsed
\* time, then the marker: the event holds frame 9, rate 25, speed 2x and 10 s,
\* each from the last line that carried it.
C22_Witness ==
    /\ Len(stdout_log) = 4
    /\ stdout_log[1].frame = 5
    /\ stdout_log[2].frame = 9
    /\ stdout_log[3].out_time_ms = 10000000
    /\ stdout_log[4].progress = "continue"
    /\ Len(emitted) = 1
    /\ emitted[1].frame = 9
    /\ emitted[1].fps = 25
    /\ emitted[1].speed = "2x"
    /\ emitted[1].time = <<0, 0, 1000>>

\* C31: every return from convert_video_minterpolate and from
\* convert_video_rife happens only after each child the function spawned has
\* exited or has been killed, so that no external process of a job runs when
\* the command releases the guard after the pipeline call.
C31_NoChildOutlivesReturn ==
    /\ sup_pc = "returned" => child \in {"none", "exited", "failed", "killed", "reaped"}
    /\ rife_pc = "returned" => running = {}

\* C31 witness: the supervised run returned the cancellation error after it
\* had killed the child it had spawned and read lines from.
C31_Witness ==
    /\ sup_pc = "returned"
    /\ sup_result = "ErrCancelled"
    /\ child = "killed"
    /\ lines_read > 0

\* C32: with a fair select and a child that closes its streams and exits, a
\* run that has spawned its child leaves the read loop and returns an
\* outcome, in whatever order stdout lines, stderr lines and the end of
\* either stream arrive (the end of stderr long before that of stdout
\* included), unless the child is held up for good in a write.
C32_RunReturns ==
    (sup_pc \in {"check", "select"} /\ child = "running")
        ~> (sup_pc = "returned" \/ child_blocked)

\* C32 witness: with cancellation not requested, the run has read stderr
\* diagnostics and LiveLines stdout lines, the stdout arm having completed
\* last, and has returned after the child's exit.
C32_Witness ==
    /\ sup_pc = "returned"
    /\ ~cancel_flag
    /\ child = "exited"
    /\ lines_read = LiveLines
    /\ stderr_seen
    /\ last_read.stream = "stdout"

\* C26: once the loop is left (end marker, end of stdout, stdout read error)
\* and the function waits for the child, the wait returns and so does the
\* function, also when the child still writes to stderr: the child is never
\* held up for good by a full stderr pipe.
C26_WaitReturns ==
    (sup_pc = "wait" /\ child = "running") ~> (sup_pc = "returned")

\* C20: once cancel_flag is set while the child runs and the function is in
\* its read loop, the function eventually returns, whatever the child does
\* from then on: also when the child writes no further line to stdout or
\* stderr and does not exit.
C20_CancelNotStarved ==
    (cancel_flag /\ child = "running" /\ sup_pc \in {"check", "select"})
        ~> (sup_pc = "returned")

\* C10: every emitted ProgressEvent has 0 <= progress <= 100, and the
\* event emitted for a line has progress = min(100, elapsed / duration * 100)
\* when the duration is positive (elapsed beyond the duration gives 100) and 0
\* when it is 0.
C10_ProgressValue ==
    /\ [](\A k \in 1..Len(emitted) :
            /\ emitted[k].progress[2] > 0
            /\ 0 <= emitted[k].progress[1]
            /\ emitted[k].progress[1] <= 100 * emitted[k].progress[2])
    /\ [][Len(emitted') > Len(emitted) =>
            LET p == emitted'[Len(emitted')].progress
                t == current_time_ms'
                d == input_duration
            IN  /\ d = 0 => p[1] = 0
                /\ (d > 0 /\ t <= d * 1000000) =>
                       p[1] * d * 10000 = t * p[2]
                /\ (d > 0 /\ t > d * 1000000) => p[1] = 100 * p[2]]_vars

\* C10 witness: with inputDuration 20, a sample at 10 s elapsed reads 50 and a
\* later one at 30 s reads 100.
C10_Witness ==
    /\ input_duration = 20
    /\ Len(emitted) = 2
    /\ emitted[1].progress = <<50, 1>>
    /\ emitted[2].progress = <<100, 1>>


(* ---------------- unsigned integers wider than 31 bits ------------------ *)

\* A u32 or usize value is kept as its base-65536 digits, least significant
\* first, without leading zero digits (zero is <<>>), so that the values above
\* 2^31 - 1, which the multiplier's overflow turns on, can be written.
Base == 256 * 256

RECURSIVE BigNorm(_)
BigNorm(b) ==
    IF b # <<>> /\ b[Len(b)] = 0 THEN BigNorm(SubSeq(b, 1, Len(b) - 1)) ELSE b

\* The digits of an integer 0 <= n < 2^31.
Big(n) == BigNorm(<<n % Base, n \div Base>>)

\* b * k for 0 <= k < 2^15.
RECURSIVE BigMulCarry(_, _, _)
BigMulCarry(b, k, carry) ==
    IF b = <<>>
      THEN IF carry = 0 THEN <<>> ELSE <<carry>>
      ELSE LET x == b[1] * k + carry
           IN  <<x % Base>> \o BigMulCarry(Tail(b), k, x \div Base)

BigMulSmall(b, k) == BigNorm(BigMulCarry(b, k, 0))

BigAddSmall(b, k) ==
    LET RECURSIVE Add(_, _)
        Add(x, carry) ==
            IF carry = 0 THEN x
            ELSE IF x = <<>> THEN <<carry>>
            ELSE <<(x[1] + carry) % Base>> \o Add(Tail(x), (x[1] + carry) \div Base)
    IN  BigNorm(Add(b, k))

\* Long division of b by 1 <= k < 2^15: <<quotient, remainder>>.
RECURSIVE BigDivFrom(_, _, _)
BigDivFrom(b, k, rem) ==
    IF b = <<>>
      THEN <<<<>>, rem>>
      ELSE LET cur == rem * Base + b[Len(b)]
               rest == BigDivFrom(SubSeq(b, 1, Len(b) - 1), k, cur % k)
           IN  <<rest[1] \o <<cur \div k>>, rest[2]>>

BigDivSmall(b, k) ==
    LET r == BigDivFrom(b, k, 0) IN <<BigNorm(r[1]), r[2]>>

RECURSIVE BigLess(_, _)
BigLess(a, b) ==
    IF Len(a) # Len(b) THEN Len(a) < Len(b)
    ELSE IF a = <<>> THEN FALSE
    ELSE IF a[Len(a)] # b[Len(b)] THEN a[Len(a)] < b[Len(b)]
    ELSE BigLess(SubSeq(a, 1, Len(a) - 1), SubSeq(b, 1, Len(b) - 1))

BigLE(a, b) == a = b \/ BigLess(a, b)

\* u32::MAX, 2^31 and 2^32.
U32Max == <<65535, 65535>>
TwoTo31 == <<0, 32768>>
TwoTo32 == <<0, 0, 1>>

(* ----------------------- the RIFE multiplier ---------------------------- *)

\* An f64 frame rate as the exact fraction num / den, num in digits.
Fps(n, d) == [num |-> Big(n), den |-> d]

\* (target_fps / input_fps).ceil() as u32 (ffmpeg.rs:596). The f64 division
\* by 0.0 gives +inf (NaN for 0.0 / 0.0); `as u32` saturates: +inf and
\* everything above u32::MAX become u32::MAX, NaN becomes 0.
CeilRatioAsU32(target, input) ==
    IF input.num = <<>>
      THEN IF target.num = <<>> THEN <<>> ELSE U32Max
      ELSE LET a == BigMulSmall(target.num, input.den)
               qr == BigDivSmall(a, target.den * input.num[1])
               c == IF qr[2] > 0 THEN BigAddSmall(qr[1], 1) ELSE qr[1]
           IN  IF BigLess(U32Max, c) THEN U32Max ELSE c

\* The smallest power of two >= c, found by doubling from 1.
RECURSIVE DoubleUpTo(_, _)
DoubleUpTo(p, c) == IF BigLE(c, p) THEN p ELSE DoubleUpTo(BigMulSmall(p, 2), c)

\* u32::next_power_of_two (ffmpeg.rs:597): the smallest power of two >= c;
\* when that is 2^32 the addition overflows: a panic in a build with overflow
\* checks (debug), 0 in one without (release).
next_power_of_two(c, overflow_checked) ==
    LET up == DoubleUpTo(<<1>>, c)
    IN  IF up = TwoTo32
          THEN IF overflow_checked THEN "panic" ELSE <<>>
          ELSE up

\* rife_multiplier (ffmpeg.rs:596-597): "panic", or the multiplier's digits.
RifeMultiplier(target, input, overflow_checked) ==
    LET p == next_power_of_two(CeilRatioAsU32(target, input), overflow_checked)
    IN  IF p = "panic" THEN "panic"
        ELSE IF BigLess(p, <<2>>) THEN <<2>> ELSE p

\* target_frame_count (ffmpeg.rs:687), a usize.
TargetFrameCount(count, multiplier) == BigMulSmall(multiplier, count)

(* ----------------- convert_video_rife: the pipeline --------------------- *)

\* Most files one tool run writes into its output directory.
MaxFrames == 2

\* The requested and the probed frame rates of a run: 0 is what
\* parse_frame_rate yields for the probe's default "0/1" (ffmpeg.rs:163-168).
TargetRates == {Fps(60, 1)}
InputRates == {Fps(24, 1), Fps(30, 1), Fps(0, 1)}

\* cleanup (ffmpeg.rs:613-615): remove_dir_all(&temp_dir), its error dropped.
cleanup == NoTree

\* commands.rs:93-101, 115-132: convert_video has cleared cancel_flag and
\* probed the input and calls convert_video_rife.
RifeBegin ==
    /\ UNCHANGED notRifeVars
    /\ rife_pc = "idle"
    /\ cancel_flag' = FALSE
    /\ \E t \in TargetRates : target_fps' = t
    /\ \E r \in InputRates : input_fps' = r
    /\ rife_pc' = "multiplier"
    /\ rife_multiplier' = <<>>
    /\ frame_count' = -1
    /\ target_frame_count' = <<>>
    /\ output_frame_count' = -1
    /\ has_audio' = FALSE
    /\ rife_events' = <<>>
    /\ rife_result' = "none"
    /\ spawned' = {}
    /\ extract_status' = "none"
    /\ interpolate_status' = "none"
    /\ tree_created' = FALSE
    /\ rife_cancelled_in' = "none"
    /\ UNCHANGED <<overflow_checks, temp_dir, running>>

\* "Calculate interpolation multiplier" (ffmpeg.rs:595-598).
RifeComputeMultiplier ==
    /\ UNCHANGED notRifeVars
    /\ rife_pc = "multiplier"
    /\ LET m == RifeMultiplier(target_fps, input_fps, overflow_checks)
       IN  IF m = "panic"
             THEN /\ rife_result' = "Panic"
                  /\ rife_pc' = "panicked"
                  /\ UNCHANGED rife_multiplier
             ELSE /\ rife_multiplier' = m
                  /\ rife_pc' = "mkdir"
                  /\ UNCHANGED rife_result
    /\ UNCHANGED <<cancel_flag, overflow_checks, target_fps, input_fps,
                   frame_count, target_frame_count, output_frame_count,
                   has_audio, rife_events, temp_dir, running, spawned,
                   extract_status, interpolate_status, tree_created,
                   rife_cancelled_in>>

\* "Create temporary directories" (ffmpeg.rs:602-610): create_dir_all of
\* input/ (which makes the tree) and of output/, each returning at its `?`.
RifeCreateDirs ==
    /\ UNCHANGED notRifeVars
    /\ rife_pc = "mkdir"
    /\ \/ /\ rife_result' = "ErrMkdir"          \* the first call fails
          /\ rife_pc' = "returned"
          /\ UNCHANGED <<temp_dir, tree_created>>
       \/ /\ rife_result' = "ErrMkdir"          \* the second call fails
          /\ rife_pc' = "returned"
          /\ temp_dir' = [temp_dir EXCEPT !.exists = TRUE]
          /\ UNCHANGED tree_created
       \/ /\ temp_dir' = [temp_dir EXCEPT !.exists = TRUE]
          /\ tree_created' = TRUE
          /\ rife_pc' = "extract"
          /\ UNCHANGED rife_result
    /\ UNCHANGED <<cancel_flag, overflow_checks, target_fps, input_fps,
                   rife_multiplier, frame_count, target_frame_count,
                   output_frame_count, has_audio, rife_events, running, spawned,
                   extract_status, interpolate_status, rife_cancelled_in>>

\* Phase 1 (ffmpeg.rs:617-636): the progress event 0, then the extract
\* ffmpeg is started with .output(); a failure to start it returns at the `?`.
RifeSpawnExtract ==
    /\ UNCHANGED notRifeVars
    /\ rife_pc = "extract"
    /\ rife_events' = Append(rife_events, 0)
    /\ \/ /\ running' = running \cup {"extract"}
          /\ spawned' = spawned \cup {"extract"}
          /\ rife_pc' = "extracting"
          /\ UNCHANGED rife_result
       \/ /\ rife_result' = "ErrExtractSpawn"
          /\ rife_pc' = "returned"
          /\ UNCHANGED <<running, spawned>>
    /\ UNCHANGED <<cancel_flag, overflow_checks, target_fps, input_fps,
                   rife_multiplier, frame_count, target_frame_count,
                   output_frame_count, has_audio, temp_dir, extract_status,
                   interpolate_status, tree_created, rife_cancelled_in>>

\* The larger of two numbers: writing n files frame_00000001.png... into a
\* directory that holds k of them leaves max(k, n) entries.
Max(a, b) == IF a >= b THEN a ELSE b

\* The extract ffmpeg exits, .output().await returns (ffmpeg.rs:634-636).
RifeExtractExit ==
    /\ UNCHANGED notRifeVars
    /\ rife_pc = "extracting"
    /\ running' = running \ {"extract"}
    /\ \E ok \in BOOLEAN, n \in 0..MaxFrames :
         /\ extract_status' = IF ok THEN "ok" ELSE "failed"
         /\ temp_dir' = [temp_dir EXCEPT !.input = Max(@, n)]
    /\ rife_pc' = "extracted"
    /\ UNCHANGED <<cancel_flag, overflow_checks, target_fps, input_fps,
                   rife_multiplier, frame_count, target_frame_count,
                   output_frame_count, has_audio, rife_events, rife_result,
                   spawned, interpolate_status, tree_created, rife_cancelled_in>>

\* RifeAfterExtract without the test of frame_count (ffmpeg.rs:667-670).
RifeAfterExtract_NoZeroCheck ==
    /\ UNCHANGED notRifeVars
    /\ rife_pc = "extracted"
    /\ IF extract_status = "failed"
         THEN /\ temp_dir' = cleanup
              /\ rife_result' = "ErrExtract"
              /\ rife_pc' = "returned"
              /\ UNCHANGED <<rife_events, frame_count>>
         ELSE IF cancel_flag
         THEN /\ temp_dir' = cleanup
              /\ rife_result' = "ErrCancelled"
              /\ rife_pc' = "returned"
              /\ UNCHANGED <<rife_events, frame_count>>
         ELSE /\ rife_events' = Append(rife_events, 30)
              /\ frame_count' = temp_dir.input
              /\ rife_pc' = "interpolate"
              /\ UNCHANGED <<temp_dir, rife_result>>
    /\ UNCHANGED <<cancel_flag, overflow_checks, target_fps, input_fps,
                   rife_multiplier, target_frame_count, output_frame_count,
                   has_audio, running, spawned, extract_status,
                   interpolate_status, tree_created, rife_cancelled_in>>

\* After the extract process (ffmpeg.rs:638-670): the test of its status, the
\* test of cancel_flag, the progress event 30, the count of the entries of
\* input/ and the test of the count.
RifeAfterExtract ==
    /\ UNCHANGED notRifeVars
    /\ rife_pc = "extracted"
    /\ IF extract_status = "failed"
         THEN /\ temp_dir' = cleanup
              /\ rife_result' = "ErrExtract"
              /\ rife_pc' = "returned"
              /\ UNCHANGED <<rife_events, frame_count>>
         ELSE IF cancel_flag
         THEN /\ temp_dir' = cleanup
              /\ rife_result' = "ErrCancelled"
              /\ rife_pc' = "returned"
              /\ UNCHANGED <<rife_events, frame_count>>
         ELSE /\ rife_events' = Append(rife_events, 30)
              /\ frame_count' = temp_dir.input
              /\ IF temp_dir.input = 0
                   THEN /\ temp_dir' = cleanup
                        /\ rife_result' = "ErrNoFrames"
                        /\ rife_pc' = "returned"
                   ELSE /\ rife_pc' = "interpolate"
                        /\ UNCHANGED <<temp_dir, rife_result>>
    /\ UNCHANGED <<cancel_flag, overflow_checks, target_fps, input_fps,
                   rife_multiplier, target_frame_count, output_frame_count,
                   has_audio, running, spawned, extract_status,
                   interpolate_status, tree_created, rife_cancelled_in>>

\* Phase 2 (ffmpeg.rs:672-700): the target frame count, then rife-ncnn-vulkan
\* is started with .output(); a failure to start it returns at the `?`.
RifeSpawnInterpolate ==
    /\ UNCHANGED notRifeVars
    /\ rife_pc = "interpolate"
    /\ target_frame_count' = TargetFrameCount(frame_count, rife_multiplier)
    /\ \/ /\ running' = running \cup {"interpolate"}
          /\ spawned' = spawned \cup {"interpolate"}
          /\ rife_pc' = "interpolating"
          /\ UNCHANGED rife_result
       \/ /\ rife_result' = "ErrRifeSpawn"
          /\ rife_pc' = "returned"
          /\ UNCHANGED <<running, spawned>>
    /\ UNCHANGED <<cancel_flag, overflow_checks, target_fps, input_fps,
                   rife_multiplier, frame_count, output_frame_count, has_audio,
                   rife_events, temp_dir, extract_status, interpolate_status,
                   tree_created, rife_cancelled_in>>

\* rife-ncnn-vulkan exits, .output().await returns (ffmpeg.rs:698-700).
RifeInterpolateExit ==
    /\ UNCHANGED notRifeVars
    /\ rife_pc = "interpolating"
    /\ running' = running \ {"interpolate"}
    /\ \E ok \in BOOLEAN, n \in 0..MaxFrames :
         /\ interpolate_status' = IF ok THEN "ok" ELSE "failed"
         /\ temp_dir' = [temp_dir EXCEPT !.output = Max(@, n)]
    /\ rife_pc' = "interpolated"
    /\ UNCHANGED <<cancel_flag, overflow_checks, target_fps, input_fps,
                   rife_multiplier, frame_count, target_frame_count,
                   output_frame_count, has_audio, rife_events, rife_result,
                   spawned, extract_status, tree_created, rife_cancelled_in>>

\* RifeAfterInterpolate with the test of cancel_flag (ffmpeg.rs:723-726) moved
\* in front of the test of output_frame_count (ffmpeg.rs:718-721).
RifeAfterInterpolate_CancelFirst ==
    /\ UNCHANGED notRifeVars
    /\ rife_pc = "interpolated"
    /\ IF interpolate_status = "failed"
         THEN /\ temp_dir' = cleanup
              /\ rife_result' = "ErrRife"
              /\ rife_pc' = "returned"
              /\ UNCHANGED <<rife_events, output_frame_count>>
         ELSE /\ output_frame_count' = temp_dir.output
              /\ IF cancel_flag
                   THEN /\ temp_dir' = cleanup
                        /\ rife_result' = "ErrCancelled"
                        /\ rife_pc' = "returned"
                        /\ UNCHANGED rife_events
                   ELSE IF temp_dir.output = 0
                   THEN /\ temp_dir' = cleanup
                        /\ rife_result' = "ErrNoOutputFrames"
                        /\ rife_pc' = "returned"
                        /\ UNCHANGED rife_events
                   ELSE /\ rife_events' = Append(rife_events, 80)
                        /\ rife_pc' = "audio"
                        /\ UNCHANGED <<temp_dir, rife_result>>
    /\ UNCHANGED <<cancel_flag, overflow_checks, target_fps, input_fps,
                   rife_multiplier, frame_count, target_frame_count, has_audio,
                   running, spawned, extract_status, interpolate_status,
                   tree_created, rife_cancelled_in>>

\* After the interpolation process (ffmpeg.rs:702-734): the test of its
\* status, the count of the entries of output/, the test of the count, the
\* test of cancel_flag, the progress event 80.
RifeAfterInterpolate ==
    /\ UNCHANGED notRifeVars
    /\ rife_pc = "interpolated"
    /\ IF interpolate_status = "failed"
         THEN /\ temp_dir' = cleanup
              /\ rife_result' = "ErrRife"
              /\ rife_pc' = "returned"
              /\ UNCHANGED <<rife_events, output_frame_count>>
         ELSE /\ output_frame_count' = temp_dir.output
              /\ IF temp_dir.output = 0
                   THEN /\ temp_dir' = cleanup
                        /\ rife_result' = "ErrNoOutputFrames"
                        /\ rife_pc' = "returned"
                        /\ UNCHANGED rife_events
                   ELSE IF cancel_flag
                   THEN /\ temp_dir' = cleanup
                        /\ rife_result' = "ErrCancelled"
                        /\ rife_pc' = "returned"
                        /\ UNCHANGED rife_events
                   ELSE /\ rife_events' = Append(rife_events, 80)
                        /\ rife_pc' = "audio"
                        /\ UNCHANGED <<temp_dir, rife_result>>
    /\ UNCHANGED <<cancel_flag, overflow_checks, target_fps, input_fps,
                   rife_multiplier, frame_count, target_frame_count, has_audio,
                   running, spawned, extract_status, interpolate_status,
                   tree_created, rife_cancelled_in>>

\* Phase 3, the side step (ffmpeg.rs:739-752): the audio ffmpeg is started
\* with .status(); the Result is dropped, so a failure to start it goes on.
RifeSpawnAudio ==
    /\ UNCHANGED notRifeVars
    /\ rife_pc = "audio"
    /\ \/ /\ running' = running \cup {"audio"}
          /\ spawned' = spawned \cup {"audio"}
          /\ rife_pc' = "audioRunning"
          /\ UNCHANGED has_audio
       \/ /\ has_audio' = temp_dir.audio          \* ffmpeg.rs:754
          /\ rife_pc' = "encode"
          /\ UNCHANGED <<running, spawned>>
    /\ UNCHANGED <<cancel_flag, overflow_checks, target_fps, input_fps,
                   rife_multiplier, frame_count, target_frame_count,
                   output_frame_count, rife_events, rife_result, temp_dir,
                   extract_status, interpolate_status, tree_created,
                   rife_cancelled_in>>

\* The audio ffmpeg exits, having written audio.aac or not; has_audio
\* (ffmpeg.rs:752-754).
RifeAudioExit ==
    /\ UNCHANGED notRifeVars
    /\ rife_pc = "audioRunning"
    /\ running' = running \ {"audio"}
    /\ \E written \in BOOLEAN :
         /\ temp_dir' = [temp_dir EXCEPT !.audio = @ \/ written]
         /\ has_audio' = (temp_dir.audio \/ written)
    /\ rife_pc' = "encode"
    /\ UNCHANGED <<cancel_flag, overflow_checks, target_fps, input_fps,
                   rife_multiplier, frame_count, target_frame_count,
                   output_frame_count, rife_events, rife_result, spawned,
                   extract_status, interpolate_status, tree_created,
                   rife_cancelled_in>>

\* Phase 3 (ffmpeg.rs:756-876): the encode ffmpeg is started with .status();
\* a failure to start it returns at the `?`.
RifeSpawnEncode ==
    /\ UNCHANGED notRifeVars
    /\ rife_pc = "encode"
    /\ \/ /\ running' = running \cup {"encode"}
          /\ spawned' = spawned \cup {"encode"}
          /\ rife_pc' = "encoding"
          /\ UNCHANGED rife_result
       \/ /\ rife_result' = "ErrEncodeSpawn"
          /\ rife_pc' = "returned"
          /\ UNCHANGED <<running, spawned>>
    /\ UNCHANGED <<cancel_flag, overflow_checks, target_fps, input_fps,
                   rife_multiplier, frame_count, target_frame_count,
                   output_frame_count, has_audio, rife_events, temp_dir,
                   extract_status, interpolate_status, tree_created,
                   rife_cancelled_in>>

\* The encode ffmpeg exits (ffmpeg.rs:874-891): cleanup, the test of the
\* status, the progress event 100.
RifeEncodeExit ==
    /\ UNCHANGED notRifeVars
    /\ rife_pc = "encoding"
    /\ running' = running \ {"encode"}
    /\ temp_dir' = cleanup
    /\ \/ /\ rife_events' = Append(rife_events, 100)
          /\ rife_pc' = "probe"
          /\ UNCHANGED rife_result
       \/ /\ rife_result' = "ErrEncode"
          /\ rife_pc' = "returned"
          /\ UNCHANGED rife_events
    /\ UNCHANGED <<cancel_flag, overflow_checks, target_fps, input_fps,
                   rife_multiplier, frame_count, target_frame_count,
                   output_frame_count, has_audio, spawned, extract_status,
                   interpolate_status, tree_created, rife_cancelled_in>>

\* get_video_info(output_path).await? and Ok(output_info.duration)
\* (ffmpeg.rs:893-898).
RifeProbeOutput ==
    /\ UNCHANGED notRifeVars
    /\ rife_pc = "probe"
    /\ \E ok \in BOOLEAN : rife_result' = IF ok THEN "Ok" ELSE "ErrProbe"
    /\ rife_pc' = "returned"
    /\ UNCHANGED <<cancel_flag, overflow_checks, target_fps, input_fps,
                   rife_multiplier, frame_count, target_frame_count,
                   output_frame_count, has_audio, rife_events, temp_dir,
                   running, spawned, extract_status, interpolate_status,
                   tree_created, rife_cancelled_in>>

\* The command takes the result (commands.rs:153-203); a later job of the
\* same OS process finds the temporary directory as this run left it.
RifeReturned ==
    /\ UNCHANGED notRifeVars
    /\ rife_pc = "returned"
    /\ rife_pc' = "idle"
    /\ target_fps' = <<>>
    /\ input_fps' = <<>>
    /\ rife_multiplier' = <<>>
    /\ frame_count' = -1
    /\ target_frame_count' = <<>>
    /\ output_frame_count' = -1
    /\ has_audio' = FALSE
    /\ rife_events' = <<>>
    /\ rife_result' = "none"
    /\ spawned' = {}
    /\ extract_status' = "none"
    /\ interpolate_status' = "none"
    /\ tree_created' = FALSE
    /\ rife_cancelled_in' = "none"
    /\ UNCHANGED <<cancel_flag, overflow_checks, temp_dir, running>>

RifeInitAnyBuild ==
    /\ JobInit
    /\ SupInit
    /\ RifeInit
    /\ cancel_flag = FALSE
    /\ overflow_checks \in BOOLEAN
    /\ calc = <<>>

RifeNext ==
    \/ RifeBegin
    \/ RifeComputeMultiplier
    \/ RifeCreateDirs
    \/ RifeSpawnExtract
    \/ RifeExtractExit
    \/ RifeAfterExtract
    \/ RifeSpawnInterpolate
    \/ RifeInterpolateExit
    \/ RifeAfterInterpolate
    \/ RifeSpawnAudio
    \/ RifeAudioExit
    \/ RifeSpawnEncode
    \/ RifeEncodeExit
    \/ RifeProbeOutput
    \/ RifeReturned
    \/ cancel_conversion

SpecRife == RifeInitAnyBuild /\ [][RifeNext]_vars

\* How the command layer can read a result of convert_video_rife
\* (commands.rs:187-202): the fixed texts of ffmpeg.rs:647, 725 hold the
\* Japanese marker; those of ffmpeg.rs:669, 720, 882 hold none; the others
\* embed an OS error or a tool's stderr, which may hold a marker or not.
RifeResultClasses(r) ==
    IF r = "Ok" THEN {"Ok"}
    ELSE IF r = "ErrCancelled" THEN {"ErrCancelFlag"}
    ELSE IF r \in {"ErrNoFrames", "ErrNoOutputFrames", "ErrEncode"} THEN {"ErrPlain"}
    ELSE {"ErrPlain", "ErrMarkerInText"}

(* --------------------- properties: the pipeline ------------------------ *)

\* C27: a run during which cancel_conversion was never called (cancel_flag,
\* cleared before the run, is still clear at its return) returns a result the
\* command reports as Success or Failed, never as Cancelled, whatever text
\* the failing step embedded in its error: no reading of the result holds a
\* cancellation marker.
C27_CancelledOnlyIfAsked ==
    (rife_pc = "returned" /\ ~cancel_flag)
        => \A c \in RifeResultClasses(rife_result) : ~HasCancelMarker(c)

\* C5: if cancel_flag is set while the extract, interpolate or encode
\* process runs, the run returns the cancellation error, neither Ok nor
\* another error.
C5_CancelInPhaseGivesCancelled ==
    (rife_pc = "returned" /\ rife_cancelled_in \in {"extract", "interpolate", "encode"})
        => rife_result = "ErrCancelled"

\* C29: over any sequence of runs in one process, every run starts with a
\* fresh working directory: when the extract phase begins (the tree has been
\* created, the extract ffmpeg is not yet started) the input-frames and the
\* output-frames directory hold no file of an earlier run, so the frames
\* counted later are those of the current run only.
C29_FreshWorkDir ==
    rife_pc = "extract" => (temp_dir.input = 0 /\ temp_dir.output = 0)

\* C6: every return of a run that created its working directory tree leaves
\* the tree removed.
C6_TreeRemovedOnReturn ==
    (rife_pc = "returned" /\ tree_created) => ~temp_dir.exists

\* C7: when the interpolation tool exited successfully and output/ holds 0
\* frames, the run returns the "no frames produced" error, which the command
\* reports as Failed, has started neither the audio nor the encode process,
\* and has removed the working directory.
C7_NoOutputFramesFails ==
    [][(/\ rife_pc = "interpolated"
        /\ interpolate_status = "ok"
        /\ temp_dir.output = 0
        /\ rife_pc' # rife_pc)
       => (/\ rife_pc' = "returned"
           /\ rife_result' = "ErrNoOutputFrames"
           /\ RifeResultClasses(rife_result') = {"ErrPlain"}
           /\ spawned' \cap {"audio", "encode"} = {}
           /\ running' = {}
           /\ ~temp_dir'.exists)]_vars

\* C7 witness: a run returned the "no frames produced" error after a
\* successful interpolation that had been asked for frames.
C7_Witness ==
    /\ rife_pc = "returned"
    /\ rife_result = "ErrNoOutputFrames"
    /\ interpolate_status = "ok"
    /\ frame_count >= 1
    /\ output_frame_count = 0

\* C8: the phases run in the order extract, interpolate, encode and never
\* overlap: the interpolation process is spawned only after the extract
\* process exited successfully with at least one frame counted, the audio and
\* encode processes only after the interpolation process exited successfully
\* with at least one output frame counted, and after a failed phase no process
\* of a later phase is spawned.
C8_PhasesInOrder ==
    /\ Cardinality(running) <= 1
    /\ "interpolate" \in spawned =>
          /\ "extract" \in spawned /\ "extract" \notin running
          /\ extract_status = "ok"
          /\ frame_count >= 1
    /\ spawned \cap {"audio", "encode"} # {} =>
          /\ "interpolate" \in spawned /\ "interpolate" \notin running
          /\ interpolate_status = "ok"
          /\ output_frame_count >= 1
    /\ "encode" \in spawned => "audio" \notin running
    /\ (extract_status = "failed"
          \/ rife_result \in {"ErrExtractSpawn", "ErrExtract", "ErrNoFrames"})
          => spawned \cap {"interpolate", "audio", "encode"} = {}
    /\ (interpolate_status = "failed"
          \/ rife_result \in {"ErrRifeSpawn", "ErrRife", "ErrNoOutputFrames"})
          => spawned \cap {"audio", "encode"} = {}

\* C8 witness: a run went through all three phases and returned Ok.
C8_Witness ==
    /\ rife_pc = "returned"
    /\ rife_result = "Ok"
    /\ {"extract", "interpolate", "encode"} \subseteq spawned


\* C24: the progress events of one run are a prefix of 0, 30, 80, 100: 0 is
\* emitted before the extract process is started, 30 only after the extract
\* process exited with success, 80 only after the interpolation left at least
\* one frame, 100 only after the encode process exited with success; and a
\* run that returns an error (cancelled or failed) has not emitted 100.
C24_ProgressBands ==
    /\ \E n \in 0..4 : rife_events = SubSeq(<<0, 30, 80, 100>>, 1, n)
    /\ "extract" \in spawned => Len(rife_events) >= 1
    /\ Len(rife_events) >= 2 => extract_status = "ok"
    /\ Len(rife_events) >= 3 => (interpolate_status = "ok" /\ output_frame_count >= 1)
    /\ Len(rife_events) >= 4 =>
          ("encode" \in spawned /\ "encode" \notin running
             /\ rife_result # "ErrEncode")
    /\ (rife_pc = "returned" /\ rife_result # "Ok") => Len(rife_events) < 4

(* ------------------ the multiplier on its inputs ------------------------ *)

\* The inputs the arithmetic is applied to: requested and probed rates, all
\* positive, and counts of extracted frames.
ThreeBillion == <<24064, 45776>>
CalcTargets ==
    { Fps(24, 1), Fps(30, 1), Fps(50, 1), Fps(60, 1), Fps(120, 1), Fps(100000, 1),
      [num |-> TwoTo31, den |-> 1], [num |-> ThreeBillion, den |-> 1] }
CalcInputs ==
    { Fps(0, 1), Fps(1, 1), Fps(24, 1), Fps(25, 1), Fps(30, 1), Fps(60, 1),
      Fps(30000, 1001), Fps(1, 30000) }
CalcFrameCounts == {1, 250}

CalcInit ==
    /\ JobInit
    /\ SupInit
    /\ RifeInit
    /\ cancel_flag = FALSE
    /\ overflow_checks \in BOOLEAN
    /\ \E t \in CalcTargets, r \in CalcInputs, n \in CalcFrameCounts :
         calc = [target_fps |-> t, input_fps |-> r, frame_count |-> n,
                 rife_multiplier |-> "none", target_frame_count |-> "none"]

\* ffmpeg.rs:596-597 and 687 applied to the inputs.
CalcApply ==
    /\ calc.rife_multiplier = "none"
    /\ LET m == RifeMultiplier(calc.target_fps, calc.input_fps, overflow_checks)
       IN  calc' = [calc EXCEPT
                      !.rife_multiplier = m,
                      !.target_frame_count =
                          IF m = "panic" THEN "panic"
                          ELSE TargetFrameCount(calc.frame_count, m)]
    /\ UNCHANGED <<jobVars, supVars, rifeVars, cancel_flag>>

CalcNext == CalcApply

SpecCalc == CalcInit /\ [][CalcNext]_vars

\* 2^k in digits.
TwoTo(k) == [i \in 1..(k \div 16) |-> 0] \o <<2 ^ (k % 16)>>

\* C9: for every positive inputFps and targetFps the multiplier is the
\* smallest power of two >= ceil(targetFps / inputFps), floored at 2, and the
\* frame count requested from the interpolation tool is
\* extractedFrameCount * multiplier. With target = a/b and input = c/d, a
\* power of two m is >= ceil(target / input) exactly when m * (b * c) >= a * d.
C9_MultiplierAndFrameCount ==
    calc # <<>> /\ calc.rife_multiplier # "none" /\ calc.input_fps.num # <<>> =>
        LET a == BigMulSmall(calc.target_fps.num, calc.input_fps.den)
            b == calc.target_fps.den * calc.input_fps.num[1]
            m == calc.rife_multiplier
        IN  /\ m # "panic"
            /\ \E k \in 1..32 :
                 /\ m = TwoTo(k)
                 /\ BigLE(a, BigMulSmall(m, b))
                 /\ k = 1 \/ BigLess(BigMulSmall(TwoTo(k - 1), b), a)
            /\ calc.target_frame_count = BigMulSmall(m, calc.frame_count)

\* C25: whatever the probe gave, the multiplier computation does not crash:
\* also with the input rate 0 (the default of an unparseable rate) or a
\* ratio beyond the 32-bit range, the u32 made of ceil(targetFps / inputFps)
\* is rounded up to a power of two without overflow and without a panic, and
\* the multiplier is a power of two >= 2.
C25_MultiplierNeverCrashes ==
    calc # <<>> /\ calc.rife_multiplier # "none" =>
        /\ calc.rife_multiplier # "panic"
        /\ BigLE(CeilRatioAsU32(calc.target_fps, calc.input_fps), TwoTo31)
        /\ \E k \in 1..31 : calc.rife_multiplier = TwoTo(k)

(* ------------------------ validate_duration ----------------------------- *)

\* a - b in digits, for a >= b.
RECURSIVE BigSubBorrow(_, _, _)
BigSubBorrow(a, b, borrow) ==
    IF a = <<>> THEN <<>>
    ELSE LET y == (IF b = <<>> THEN 0 ELSE b[1]) + borrow
             x == a[1] - y
         IN  <<IF x < 0 THEN x + Base ELSE x>>
               \o BigSubBorrow(Tail(a), IF b = <<>> THEN <<>> ELSE Tail(b),
                               IF x < 0 THEN 1 ELSE 0)

BigSub(a, b) == BigNorm(BigSubBorrow(a, b, 0))

\* An f64 is written as its exact value times 2^56, in digits: every f64 that
\* is 0 or at least 2^-4 is such an integer. F64Round is the round-to-nearest,
\* ties-to-even, of an exact result to the 53 significant bits of an f64.
F64Round(n) ==
    IF BigLess(n, TwoTo(53)) THEN n
    ELSE LET s == CHOOSE t \in 1..14 :
                     BigLE(TwoTo(52 + t), n) /\ BigLess(n, TwoTo(53 + t))
             qr == BigDivSmall(n, 2 ^ s)
             up == \/ 2 * qr[2] > 2 ^ s
                   \/ 2 * qr[2] = 2 ^ s /\ qr[1][1] % 2 = 1
         IN  BigMulSmall(IF up THEN BigAddSmall(qr[1], 1) ELSE qr[1], 2 ^ s)

\* str::parse::<f64>() of a decimal with two fractional digits, given in
\* hundredths (2010 is "20.10"): the f64 nearest to it (ffmpeg.rs:171-179
\* parses ffprobe's duration this way). 0, or 6 <= hundredths < 3200.
F64OfHundredths(h) ==
    IF h = 0 THEN <<>>
    ELSE LET e == CHOOSE t \in 48..56 :
                     /\ BigLE(BigMulSmall(TwoTo(52), 100), BigMulSmall(TwoTo(t), h))
                     /\ BigLess(BigMulSmall(TwoTo(t), h), BigMulSmall(TwoTo(53), 100))
             qr == BigDivSmall(BigMulSmall(TwoTo(e), h), 100)
             up == \/ 2 * qr[2] > 100
                   \/ 2 * qr[2] = 100 /\ qr[1][1] % 2 = 1
         IN  BigMulSmall(IF up THEN BigAddSmall(qr[1], 1) ELSE qr[1], 2 ^ (56 - e))

\* const DURATION_TOLERANCE: f64 = 0.1 (validation.rs:2).
DURATION_TOLERANCE == F64OfHundredths(10)

\* validate_duration (validation.rs:6-10) on two f64 values: the f64
\* subtraction, its sign and magnitude, and the comparison of the magnitude
\* with the tolerance.
validate_duration(input_duration_f, output_duration_f) ==
    LET neg == BigLess(output_duration_f, input_duration_f)
        mag == F64Round(IF neg THEN BigSub(input_duration_f, output_duration_f)
                               ELSE BigSub(output_duration_f, input_duration_f))
    IN  [is_valid |-> BigLE(mag, DURATION_TOLERANCE),
         diff |-> [negative |-> neg, magnitude |-> mag]]

\* The durations validate_duration is applied to, in hundredths of a second.
ValidateDurations ==
    {0, 10, 70, 80, 980, 985, 990, 995, 1000, 1005, 1010, 1015, 1020, 2000, 2010}

ValidateInit ==
    /\ JobInit
    /\ SupInit
    /\ RifeInit
    /\ cancel_flag = FALSE
    /\ overflow_checks = FALSE
    /\ \E i \in ValidateDurations, o \in ValidateDurations :
         calc = [input |-> i, output |-> o, applied |-> FALSE, is_valid |-> FALSE,
                 diff |-> [negative |-> FALSE, magnitude |-> <<>>]]

\* validation.rs:6-10 applied to the two parsed durations.
ValidateApply ==
    /\ ~calc.applied
    /\ LET r == validate_duration(F64OfHundredths(calc.input),
                                  F64OfHundredths(calc.output))
       IN  calc' = [calc EXCEPT !.applied = TRUE, !.is_valid = r.is_valid,
                                !.diff = r.diff]
    /\ UNCHANGED <<jobVars, supVars, rifeVars, cancel_flag>>

ValidateNext == ValidateApply

SpecValidate == ValidateInit /\ [][ValidateNext]_vars

\* C11: for all (input, output) pairs validate_duration returns is_valid =
\* true iff |output - input| <= 0.1, the boundary 0.1 included on both sides,
\* and returns the signed difference output - input (to within 0.0001, as
\* validation.rs:44, 47 read it).
C11_ValidIffWithinTolerance ==
    calc.applied =>
        LET d == calc.output - calc.input
            absd == IF d < 0 THEN -d ELSE d
            exact == BigMulSmall(TwoTo(56), absd)
            got == BigMulSmall(calc.diff.magnitude, 100)
            err == IF BigLess(got, exact) THEN BigSub(exact, got)
                                          ELSE BigSub(got, exact)
        IN  /\ calc.is_valid <=> (absd <= 10)
            /\ d # 0 => (calc.diff.negative <=> d < 0)
            /\ BigLess(err, TwoTo(49))

(* ------------- convert_video_rife: the encode arguments ----------------- *)

\* a + b in digits.
RECURSIVE BigAddCarry(_, _, _)
BigAddCarry(a, b, carry) ==
    IF a = <<>> /\ b = <<>>
      THEN IF carry = 0 THEN <<>> ELSE <<carry>>
      ELSE LET x == (IF a = <<>> THEN 0 ELSE a[1]) + (IF b = <<>> THEN 0 ELSE b[1])
                      + carry
           IN  <<x % Base>> \o BigAddCarry(IF a = <<>> THEN <<>> ELSE Tail(a),
                                           IF b = <<>> THEN <<>> ELSE Tail(b),
                                           x \div Base)

BigAdd(a, b) == BigNorm(BigAddCarry(a, b, 0))

\* a * b in digits: b digit by digit, each digit in its two bytes.
RECURSIVE BigMul(_, _)
BigMul(a, b) ==
    IF b = <<>> THEN <<>>
    ELSE LET byDigit == BigAdd(BigMulSmall(BigMulSmall(a, b[1] \div 256), 256),
                               BigMulSmall(a, b[1] % 256))
             rest == BigMul(a, Tail(b))
         IN  BigAdd(byDigit, IF rest = <<>> THEN <<>> ELSE <<0>> \o rest)

BigDist(a, b) == IF BigLess(a, b) THEN BigSub(b, a) ELSE BigSub(a, b)

\* The binary exponent e of a ratio n / m with 2^-4 <= n / m < 2^12:
\* 2^52 <= 2^e * n / m < 2^53.
RatioExponent(n, m) ==
    CHOOSE t \in 41..56 :
        /\ BigLE(BigMulSmall(TwoTo(52), m), BigMulSmall(TwoTo(t), n))
        /\ BigLess(BigMulSmall(TwoTo(t), n), BigMulSmall(TwoTo(53), m))

\* The f64 nearest to n / m, for 0 < n, m < 2^15.
F64OfRatio(n, m) ==
    LET e == RatioExponent(n, m)
        qr == BigDivSmall(BigMulSmall(TwoTo(e), n), m)
        up == \/ 2 * qr[2] > m
              \/ 2 * qr[2] = m /\ qr[1][1] % 2 = 1
    IN  BigMulSmall(IF up THEN BigAddSmall(qr[1], 1) ELSE qr[1], 2 ^ (56 - e))

\* output_frame_count as f64 / input_duration (ffmpeg.rs:757), for a duration
\* parsed from a decimal of h hundredths, h > 0: the f64 nearest to the
\* quotient of count by the f64 duration. It lies within two units in the last
\* place of the f64 nearest to 100 * count / h, and is the one of those whose
\* product with the duration is nearest to count (of two equally near, the one
\* with the even significand).
F64CountByDuration(count, h) ==
    LET d == F64OfHundredths(h)
        ulp == 2 ^ (56 - RatioExponent(100 * count, h))
        q0 == F64OfRatio(100 * count, h)
        cands == { BigSub(q0, Big(2 * ulp)), BigSub(q0, Big(ulp)), q0,
                   BigAdd(q0, Big(ulp)), BigAdd(q0, Big(2 * ulp)) }
        exact == BigMulSmall(TwoTo(112), count)
        err(q) == BigDist(BigMul(q, d), exact)
        even(q) == BigDivSmall(q, ulp)[1][1] % 2 = 0
    IN  CHOOSE q \in cands :
            \A r \in cands \ {q} :
                \/ BigLess(err(q), err(r))
                \/ err(q) = err(r) /\ even(q)

\* The f64 1.0.
F64One == TwoTo(56)

\* The encode arguments that turn on the rates (ffmpeg.rs:756-767, 859-866):
\* the value after -framerate, and whether "-filter:v fps=<target_fps>" is
\* appended. target_f is target_fps as an f64; a duration of 0.0 makes the
\* quotient of a positive count infinite, and so the difference.
EncodeArgs_FilterFromOne(target_f, count, duration_h) ==
    IF duration_h = 0
      THEN [framerate |-> [inf |-> TRUE, val |-> <<>>], fps_filter |-> TRUE]
      ELSE LET actual_output_fps == F64CountByDuration(count, duration_h)
               diff == F64Round(BigDist(target_f, actual_output_fps))
           IN  [framerate |-> [inf |-> FALSE, val |-> actual_output_fps],
                fps_filter |-> BigLE(F64One, diff)]

EncodeArgs(target_f, count, duration_h) ==
    IF duration_h = 0
      THEN [framerate |-> [inf |-> TRUE, val |-> <<>>], fps_filter |-> TRUE]
      ELSE LET actual_output_fps == F64CountByDuration(count, duration_h)
               diff == F64Round(BigDist(target_f, actual_output_fps))
           IN  [framerate |-> [inf |-> FALSE, val |-> actual_output_fps],
                fps_filter |-> BigLess(F64One, diff)]

\* The requested rates, in hundredths of a frame per second.
EncodeTargets == {2400, 2500, 2997, 6000}

\* The frames the interpolation left in output/ (at least one: ffmpeg.rs:725).
EncodeFrameCounts == {57, 240, 245, 250, 600}

\* The probed input durations, in hundredths of a second; 0 is the default of
\* a missing duration (ffmpeg.rs:179).
EncodeDurations == {0, 228, 1000, 1003}

EncodeInit ==
    /\ JobInit
    /\ SupInit
    /\ RifeInit
    /\ cancel_flag = FALSE
    /\ overflow_checks = FALSE
    /\ \E t \in EncodeTargets, c \in EncodeFrameCounts, d \in EncodeDurations :
         calc = [target |-> t, count |-> c, duration |-> d, applied |-> FALSE,
                 framerate |-> [inf |-> FALSE, val |-> <<>>],
                 fps_filter |-> FALSE]

\* ffmpeg.rs:756-767 and 859-866 applied to the three values.
EncodeApply ==
    /\ ~calc.applied
    /\ LET a == EncodeArgs(F64OfRatio(calc.target, 100), calc.count, calc.duration)
       IN  calc' = [calc EXCEPT !.applied = TRUE, !.framerate = a.framerate,
                                !.fps_filter = a.fps_filter]
    /\ UNCHANGED <<jobVars, supVars, rifeVars, cancel_flag>>

EncodeNext == EncodeApply

SpecEncode == EncodeInit /\ [][EncodeNext]_vars

\* C33: the encode phase never computes the achieved rate with a non-positive
\* divisor: whenever output_frame_count / input_duration is evaluated the
\* duration is above 0, also when the probe gave the default 0 of a missing
\* duration.
C33_DivisorPositive ==
    calc.applied => (calc.duration > 0 /\ ~calc.framerate.inf)

\* C23: the value handed to -framerate is the achieved rate, the f64 quotient
\* of the output frame count by the input duration (within one rounding of
\* the exact quotient; it is made of those two values only, not of the
\* requested rate nor of input rate and multiplier), and the fps=<target>
\* filter is in the encode command iff the requested rate and that value
\* differ by more than 1. With the duration 0.0 the quotient is infinite and
\* the filter is added.
C23_EncodeAtAchievedRate ==
    calc.applied =>
        IF calc.duration = 0
          THEN calc.framerate.inf /\ calc.fps_filter
          ELSE LET rate == calc.framerate.val
                   d == F64OfHundredths(calc.duration)
                   target_f == F64OfRatio(calc.target, 100)
                   product == BigMul(rate, d)
                   exact == BigMulSmall(TwoTo(112), calc.count)
               IN  /\ ~calc.framerate.inf
                   /\ F64Round(rate) = rate
                   /\ BigLE(BigMul(BigDist(product, exact), TwoTo(53)), product)
                   /\ calc.fps_filter <=> BigLess(F64One, BigDist(target_f, rate))

\* C23 witness: 250 frames over 10.00 s with 24 requested: encoded at 25.0,
\* which is 1 away from the request and not more, so no filter.
C23_Witness ==
    /\ calc.applied
    /\ calc.target = 2400 /\ calc.count = 250 /\ calc.duration = 1000
    /\ calc.framerate.val = BigMulSmall(TwoTo(56), 25)
    /\ ~calc.fps_filter

(* ------------------------- parse_frame_rate ----------------------------- *)

\* A string is written as the sequence of its pieces between '/' characters
\* (str::split('/'), ffmpeg.rs:206): it contains '/' iff it has more than one
\* piece. A piece is what str::parse::<f64>() makes of it: Ok with a value
\* n/d, or Err (the empty piece, a piece that is no number).
Num(n, d) == [parse |-> "Ok", text |-> "number", val |-> <<n, d>>]
NotNum(t) == [parse |-> "Err", text |-> t, val |-> <<0, 1>>]

Pieces ==
    { Num(0, 1), Num(1, 1), Num(30, 1), Num(1001, 1), Num(30000, 1),
      Num(2997, 100), Num(-1, 1), NotNum(""), NotNum("abc") }

MaxPieces == 3

FpsStrings == UNION { [1..n -> Pieces] : n \in 1..MaxPieces }

\* The f64 quotient a / b of two values, b > 0, as a reduced fraction.
F64Div(a, b) ==
    LET n == a[1] * b[2]
        d == a[2] * b[1]
    IN  IF n < 0 THEN <<-(RatNorm(-n, d)[1]), RatNorm(-n, d)[2]>> ELSE RatNorm(n, d)

\* piece.parse().unwrap_or(default) (ffmpeg.rs:208, 209, 215).
ParseOr(piece, default) == IF piece.parse = "Ok" THEN piece.val ELSE default

\* fps_str.parse().unwrap_or(0.0) (ffmpeg.rs:215): a string holding '/' is no
\* f64.
ParseWhole(fps_str) ==
    IF Len(fps_str) = 1 THEN ParseOr(fps_str[1], <<0, 1>>) ELSE <<0, 1>>

\* parse_frame_rate (ffmpeg.rs:204-216).
parse_frame_rate(fps_str) ==
    IF Len(fps_str) > 1 /\ Len(fps_str) = 2
      THEN LET num == ParseOr(fps_str[1], <<0, 1>>)
               den == ParseOr(fps_str[2], <<1, 1>>)
           IN  IF den[1] > 0 THEN F64Div(num, den) ELSE ParseWhole(fps_str)
      ELSE ParseWhole(fps_str)

ParseInit ==
    /\ JobInit
    /\ SupInit
    /\ RifeInit
    /\ cancel_flag = FALSE
    /\ overflow_checks = FALSE
    /\ \E t \in FpsStrings : calc = [fps_str |-> t, applied |-> FALSE, fps |-> <<0, 1>>]

\* ffmpeg.rs:163-168: the probed rate string goes through parse_frame_rate.
ParseApply ==
    /\ ~calc.applied
    /\ calc' = [calc EXCEPT !.applied = TRUE, !.fps = parse_frame_rate(calc.fps_str)]
    /\ UNCHANGED <<jobVars, supVars, rifeVars, cancel_flag>>

ParseNext == ParseApply

SpecParse == ParseInit /\ [][ParseNext]_vars

\* C12: parse_frame_rate yields 0.0 for "N/D" with D = 0 and whenever parsing
\* fails (the whole string is no number, or the numerator or the denominator
\* of an "N/D" string is no number); for a well-formed "N/D" with D > 0 it
\* yields N/D, and for a plain decimal that decimal.
C12_ParseFrameRate ==
    calc.applied =>
        LET t == calc.fps_str
        IN  /\ Len(t) = 1 /\ t[1].parse = "Ok" => calc.fps = t[1].val
            /\ Len(t) = 1 /\ t[1].parse = "Err" => calc.fps = <<0, 1>>
            /\ Len(t) > 2 => calc.fps = <<0, 1>>
            /\ Len(t) = 2 /\ (t[1].parse = "Err" \/ t[2].parse = "Err")
                  => calc.fps = <<0, 1>>
            /\ Len(t) = 2 /\ t[1].parse = "Ok" /\ t[2].parse = "Ok" /\ t[2].val[1] = 0
                  => calc.fps = <<0, 1>>
            /\ Len(t) = 2 /\ t[1].parse = "Ok" /\ t[2].parse = "Ok" /\ t[2].val[1] > 0
                  => calc.fps[1] * t[1].val[2] * t[2].val[1]
                       = t[1].val[1] * t[2].val[2] * calc.fps[2]

(* ---------------------- what a command returns -------------------------- *)

\* The value a job command returns for a pipeline result, by command. A
\* duration is in hundredths of a second as ffprobe prints it; duration_diff is
\* the sign and the magnitude of an f64.
VideoCommands == {"convert_video", "upscale_video", "compress_video"}

F64Zero == [negative |-> FALSE, magnitude |-> <<>>]

\* Err(e), returned unchanged (commands.rs:198-200, 305-307, 405-407, 516-518).
ErrReply == [kind |-> "Err"]

\* The Err(e) arm when e holds a marker (commands.rs:188-197, 295-304,
\* 395-404; 506-515 for process_audio, whose result has no duration_diff and
\* duration_valid).
CancelledReply(c) ==
    IF c \in VideoCommands
      THEN [kind |-> "Ok", success |-> FALSE, output_duration |-> 0,
            duration_diff |-> F64Zero, duration_valid |-> FALSE,
            message |-> "cancelled"]
      ELSE [kind |-> "Ok", success |-> FALSE, output_duration |-> 0,
            message |-> "cancelled"]

\* The Ok arm of convert_video turning a drift beyond the tolerance into an
\* error.
ConvertOkReply_DriftFails(input_duration_h, output_duration_h) ==
    LET v == validate_duration(F64OfHundredths(input_duration_h),
                               F64OfHundredths(output_duration_h))
    IN  IF v.is_valid
          THEN [kind |-> "Ok", success |-> TRUE, output_duration |-> output_duration_h,
                duration_diff |-> v.diff, duration_valid |-> TRUE,
                message |-> "completed"]
          ELSE ErrReply

\* The Ok(output_duration) arm of convert_video (commands.rs:160-186).
ConvertOkReply(input_duration_h, output_duration_h) ==
    LET v == validate_duration(F64OfHundredths(input_duration_h),
                               F64OfHundredths(output_duration_h))
    IN  [kind |-> "Ok", success |-> TRUE, output_duration |-> output_duration_h,
         duration_diff |-> v.diff, duration_valid |-> v.is_valid,
         message |-> IF v.is_valid THEN "completed" ELSE "warning"]

\* The Ok arm of upscale_video and compress_video (commands.rs:271-293,
\* 370-393): the output is probed, get_video_info(..)? returning its Err;
\* duration_diff is the magnitude, valid below 0.5.
ReprobeOkReply(input_duration_h, output_duration_h, probe_ok) ==
    LET v == validate_duration(F64OfHundredths(input_duration_h),
                               F64OfHundredths(output_duration_h))
    IN  IF ~probe_ok THEN ErrReply
        ELSE [kind |-> "Ok", success |-> TRUE, output_duration |-> output_duration_h,
              duration_diff |-> [negative |-> FALSE, magnitude |-> v.diff.magnitude],
              duration_valid |-> BigLess(v.diff.magnitude, F64OfHundredths(50)),
              message |-> "completed"]

\* The Ok(output_duration) arm of process_audio (commands.rs:489-504).
AudioOkReply(output_duration_h) ==
    [kind |-> "Ok", success |-> TRUE, output_duration |-> output_duration_h,
     message |-> "completed"]

\* An Err arm that reports every error as Cancelled's record with the
\* produced output's duration left in it.
CommandReply_KeepsDuration(c, r, input_duration_h, output_duration_h, probe_ok) ==
    IF r = "Ok"
      THEN IF c = "convert_video" THEN ConvertOkReply(input_duration_h, output_duration_h)
           ELSE IF c = "process_audio" THEN AudioOkReply(output_duration_h)
           ELSE ReprobeOkReply(input_duration_h, output_duration_h, probe_ok)
      ELSE IF HasCancelMarker(r)
             THEN [CancelledReply(c) EXCEPT !.output_duration = output_duration_h]
             ELSE ErrReply

\* match result of the four commands (commands.rs:159-202, 270-309, 369-409,
\* 488-520).
CommandReply(c, r, input_duration_h, output_duration_h, probe_ok) ==
    IF r = "Ok"
      THEN IF c = "convert_video" THEN ConvertOkReply(input_duration_h, output_duration_h)
           ELSE IF c = "process_audio" THEN AudioOkReply(output_duration_h)
           ELSE ReprobeOkReply(input_duration_h, output_duration_h, probe_ok)
      ELSE IF HasCancelMarker(r) THEN CancelledReply(c) ELSE ErrReply

\* The probed durations of input and output, in hundredths of a second.
ReplyDurations == {1000, 1010, 1015, 1060, 2000, 2010}

ReplyInit ==
    /\ JobInit
    /\ SupInit
    /\ RifeInit
    /\ cancel_flag = FALSE
    /\ overflow_checks = FALSE
    /\ \E c \in Commands, r \in PipelineResults, i \in ReplyDurations,
          o \in ReplyDurations, ok \in BOOLEAN :
         calc = [cmd |-> c, result |-> r, input |-> i, output |-> o,
                 probe_ok |-> ok, applied |-> FALSE, reply |-> ErrReply]

\* The command's match on the pipeline result.
ReplyApply ==
    /\ ~calc.applied
    /\ calc' = [calc EXCEPT
                  !.applied = TRUE,
                  !.reply = CommandReply(calc.cmd, calc.result, calc.input,
                                         calc.output, calc.probe_ok)]
    /\ UNCHANGED <<jobVars, supVars, rifeVars, cancel_flag>>

ReplyNext == ReplyApply

SpecReply == ReplyInit /\ [][ReplyNext]_vars

\* C14: when the pipeline of convert_video succeeded and the output duration
\* differs from the input duration by more than the tolerance, convert_video
\* returns Ok with success = true, duration_valid = false and the warning
\* message: neither an error nor the Cancelled record.
C14_DriftIsAWarning ==
    (/\ calc.applied
     /\ calc.cmd = "convert_video"
     /\ calc.result = "Ok"
     /\ (calc.output - calc.input > 10 \/ calc.input - calc.output > 10))
        => /\ calc.reply.kind = "Ok"
           /\ calc.reply.success
           /\ ~calc.reply.duration_valid
           /\ calc.reply.message = "warning"

\* C14 witness: a 10.00 s input converted to a 10.15 s output came back as a
\* success carrying the warning.
C14_Witness ==
    /\ calc.applied
    /\ calc.cmd = "convert_video"
    /\ calc.result = "Ok"
    /\ calc.input = 1000 /\ calc.output = 1015
    /\ calc.reply.kind = "Ok" /\ calc.reply.message = "warning"

\* C19: every Cancelled value a job command returns has success = false and
\* output_duration = 0 and, for the video commands, duration_valid = false and
\* duration_diff = 0, whatever the pipeline left on disk.
C19_CancelledHasNoOutput ==
    (/\ calc.applied
     /\ calc.reply.kind = "Ok"
     /\ calc.reply.message = "cancelled")
        => /\ ~calc.reply.success
           /\ calc.reply.output_duration = 0
           /\ calc.cmd \in VideoCommands =>
                 /\ ~calc.reply.duration_valid
                 /\ calc.reply.duration_diff = F64Zero

\* C19 witness: compress_video returned Cancelled for a pipeline error that
\* holds a marker, with a 20.10 s output on disk.
C19_Witness ==
    /\ calc.applied
    /\ calc.cmd = "compress_video"
    /\ HasCancelMarker(calc.result)
    /\ calc.output = 2010
    /\ calc.reply.kind = "Ok" /\ calc.reply.message = "cancelled"

=============================================================================
